---- MODULE Spec2Model ----
(***************************************************************************)
(* A model of the DLPC900 DMD driver: the pattern codec                    *)
(* (drivers/dlp_compression.py) and the pattern-sequence orchestrator of   *)
(* drivers/dlp_driver.py (upload_pattern_sequence, set_pattern_sequence,   *)
(* program_dmd_seq) down to the commands handed to send_command.           *)
(*                                                                         *)
(* Python indices are 0-based, TLA+ sequences 1-based: an array a[i] of    *)
(* the source is a[i + 1] here.  An image is <<R, G, B>>, each plane a     *)
(* sequence of rows, each row a sequence of uint8 values.  A call that     *)
(* raises is the record Raise(kind); a call that returns v is Ok(v).       *)
(***************************************************************************)
EXTENDS Integers, Sequences, FiniteSets, TLC

VARIABLES
    \* ---- codec calls (dlp_compression.py) ----
    cstage,     \* which codec function ran last
    cin,        \* the argument of the codec session (an image or frame list descriptor)
    cenc,       \* result of encode_erle / encode_rle / combine_patterns
    cdec,       \* result of decode_erle / split_combined_patterns
    \* ---- driver object and device (dlp_driver.py) ----
    dual_controller,      \* class attribute of the opened device model
    on_the_fly_patterns,  \* self.on_the_fly_patterns
    pc,         \* position inside the running driver method
    call,       \* arguments of the running driver method
    ii,         \* the running loop's index
    todo,       \* BMP loads still to be issued for the combined frame at hand
    cmds,       \* the send_command calls made by the method, in order, each with
                \* the reply the device gave to it
    after,      \* where the method resumes once read_error_description returns
    result,     \* outcome of the method: running, returned, or the exception raised
    faults,     \* replies the device has flagged or withheld during this method
    \* ---- one send_command, decode_response, get_dmd_sequence (dlp_driver.py)
    \*      or load_config_file (dlp_config.py) call ----
    sstage,     \* how far the call has come
    sin,        \* its arguments
    buffer,     \* send_command's header + data, handed to send_raw_command
    data_counter, \* send_raw_command's position in buffer
    packets,    \* the reports written to the HID handle, report id stripped
    reply,      \* send_raw_command's reply, packet replies concatenated
    response,   \* what the call returned or raised
    dmd,        \* self._dmd, the HID handle
    timeouts,   \* reads of this call that returned nothing
    \* ---- threads of the application (gui/*.py) and of a DCSController's
    \*      callers (dcs_controller.py) ----
    tpc,        \* per thread, where it is in the method it runs
    tlocal,     \* per thread, the locals of that method
    lock,       \* DCSController._lock: the thread holding it, or "none"
    sock,       \* DCSController._socket and _connected, and the datagrams in flight
    wire,       \* what has been done on the HID handle or the socket, in order
    gui,        \* DLPApp.dlp and the upload button
    ops         \* user actions or method calls made so far

cvars == <<cstage, cin, cenc, cdec>>
dvars == <<dual_controller, on_the_fly_patterns, pc, call, ii, todo, cmds, after, result, faults>>
avars == <<tpc, tlocal, lock, sock, wire, gui, ops>>
svars == <<sstage, sin, buffer, data_counter, packets, reply, response, dmd, timeouts>>
vars == <<cstage, cin, cenc, cdec,
          dual_controller, on_the_fly_patterns, pc, call, ii, todo, cmds, after, result, faults,
          sstage, sin, buffer, data_counter, packets, reply, response, dmd, timeouts,
          tpc, tlocal, lock, sock, wire, gui, ops>>

----------------------------------------------------------------------------
(* Results of calls *)

Ok(v) == [err |-> "none", val |-> v]
Raise(kind) == [err |-> kind, val |-> <<>>]

----------------------------------------------------------------------------
(* Bounds of the model *)

\* image heights of the codec sessions are 1..MaxH
MaxH == 2
\* the small image widths of the codec sessions are 1..MaxSmallW
MaxSmallW == 2

----------------------------------------------------------------------------
(* dlp_compression.py: length codec *)

\* the first length that needs the two-byte form
TwoByteMin == 128
\* the largest run one RLE group holds
RleMaxRun == 255

erle_len2bytes(length) ==
    IF length < 0 \/ length > 2^15 - 1 THEN Raise("ValueError")
    ELSE IF length < TwoByteMin THEN Ok(<<length>>)
    ELSE Ok(<<(length % 128) + 128, length \div 128>>)

\* an element of an encoded list is a Python int, or the numpy scalar the
\* encoder took out of an array: an int64 run length or a uint8 pixel value.
\* A scalar is [v, ty]; the outcome of an operation that raises has the
\* exception for its type
ScalarTypes == {"int", "int64", "uint8"}

\* the scalar arithmetic of the numpy the program is run on, which nothing in
\* the repository pins: numpy 1.x takes a Python int beside a numpy scalar as an
\* int64, numpy 2 (NEP 50) keeps the numpy scalar's type
NumpyRules == {"legacy", "nep50"}

PyInt(v) == [v |-> v, ty |-> "int"]
Num(v, ty) == [v |-> IF ty = "uint8" THEN v % 256 ELSE v, ty |-> ty]
Thrown(kind) == [v |-> 0, ty |-> kind]
Threw(x) == x.ty \notin ScalarTypes

result_type(np, a, b) ==
    IF a = "int" /\ b = "int" THEN "int"
    ELSE IF a = "uint8" /\ b = "uint8" THEN "uint8"
    ELSE IF np = "nep50" /\ a = "int" THEN b
    ELSE IF np = "nep50" /\ b = "int" THEN a
    ELSE "int64"

\* x op y, v being the exact result: a uint8 result wraps, and under NEP 50 a
\* Python int that the uint8 beside it cannot hold raises OverflowError
Arith(np, x, y, v) ==
    IF Threw(x) THEN x
    ELSE IF Threw(y) THEN y
    ELSE IF np = "nep50" /\ x.ty = "int" /\ y.ty = "uint8" /\ x.v \notin 0..255
         THEN Thrown("OverflowError")
    ELSE IF np = "nep50" /\ y.ty = "int" /\ x.ty = "uint8" /\ y.v \notin 0..255
         THEN Thrown("OverflowError")
    ELSE Num(v, result_type(np, x.ty, y.ty))

Add(np, x, y) == Arith(np, x, y, x.v + y.v)
Sub(np, x, y) == Arith(np, x, y, x.v - y.v)
Mul(np, x, y) == Arith(np, x, y, x.v * y.v)
Shl(np, x, y) == Arith(np, x, y, x.v * 2^(y.v))

\* a decoder that reads the first byte only
bytes2len_first(np, byte_list) == byte_list[1]

\* lsb, msb = byte_list cannot be unpacked from an empty list
erle_bytes2len(np, byte_list) ==
    IF Len(byte_list) = 1 THEN byte_list[1]
    ELSE IF Len(byte_list) # 2 THEN Thrown("ValueError")
    ELSE Add(np, Shl(np, byte_list[2], PyInt(7)), Sub(np, byte_list[1], PyInt(128)))

----------------------------------------------------------------------------
(* Arrays *)

Min(a, b) == IF a < b THEN a ELSE b

\* the list of scalars of values vals and types tys
ScalarList(vals, tys) ==
    LET n == Len(vals) IN SubSeq([k \in 1..n |-> [v |-> vals[k], ty |-> tys[k]]], 1, n)

\* what an encoder returned: the values of its list and, beside them, the
\* types of its elements
Listed(res, tys) ==
    IF res.err # "none" THEN res ELSE [err |-> "none", val |-> res.val, ty |-> tys]

\* Python ints
Ints(vals) == [k \in 1..Len(vals) |-> PyInt(vals[k])]

\* Python's b[lo:hi] of a list (0-based bounds, clipped to the list)
Slice(b, lo, hi) == SubSeq(b, lo + 1, Min(hi, Len(b)))

\* pattern.shape[1] and pattern.shape[2] of a 3 x ny x nx array
NRows(p) == Len(p[1])
NCols(p) == IF Len(p[1]) = 0 THEN 0 ELSE Len(p[1][1])

\* pattern[:, r, :] as the sequence of its RGB triples (r is 1-based)
RowRgb(p, r) == [c \in 1..Len(p[1][r]) |-> <<p[1][r][c], p[2][r][c], p[3][r][c]>>]

\* inds_change: the 1-based columns where a run of equal triples starts, in order
RunStarts(row) ==
    SelectSeq([c \in 1..Len(row) |-> c], LAMBDA c : IF c = 1 THEN TRUE ELSE row[c] # row[c - 1])

\* the maximal runs of equal triples of a row, in order: zip(inds_change, run_lens)
row_runs(row) ==
    LET starts == RunStarts(row)
        m == Len(starts)
    IN [k \in 1..m |->
           [n |-> (IF k = m THEN Len(row) + 1 ELSE starts[k + 1]) - starts[k],
            px |-> row[starts[k]]]]

\* tok(lo) \o ... \o tok(hi) for a sequence tok of byte lists
RECURSIVE Flatten(_, _, _)
Flatten(tok, lo, hi) ==
    IF lo > hi THEN <<>>
    ELSE IF lo = hi THEN tok[lo]
    ELSE LET mid == (lo + hi) \div 2 IN Flatten(tok, lo, mid) \o Flatten(tok, mid + 1, hi)

----------------------------------------------------------------------------
(* dlp_compression.py: encoders *)

\* the row-copy record of both encoders: msb, lsb = erle_len2bytes(nx), which
\* cannot be unpacked when the list holds one byte
row_copy(nx) ==
    LET lb == erle_len2bytes(nx) IN
    IF lb.err # "none" THEN lb
    ELSE IF Len(lb.val) # 2 THEN Raise("ValueError")
    ELSE Ok(<<0, 1, lb.val[1], lb.val[2]>>)

\* the bytes of the runs of one row: erle_len2bytes(rlen) + [v[0], v[1], v[2]] each
erle_runs(runs) ==
    IF \E k \in 1..Len(runs) : erle_len2bytes(runs[k].n).err # "none" THEN Raise("ValueError")
    ELSE Ok(Flatten([k \in 1..Len(runs) |-> erle_len2bytes(runs[k].n).val \o runs[k].px],
                    1, Len(runs)))

RECURSIVE erle_rows(_, _, _)
erle_rows(p, r, acc) ==
    IF r > NRows(p) THEN Ok(acc \o <<0, 1, 0>>)
    ELSE IF r > 1 /\ RowRgb(p, r) = RowRgb(p, r - 1)
         THEN LET rc == row_copy(NCols(p)) IN
              IF rc.err # "none" THEN rc ELSE erle_rows(p, r + 1, acc \o rc.val)
         ELSE LET rb == erle_runs(row_runs(RowRgb(p, r))) IN
              IF rb.err # "none" THEN rb ELSE erle_rows(p, r + 1, acc \o rb.val)

\* a row without columns has no pixel row_rgb[:, 0] to read
encode_erle(pattern) ==
    IF NRows(pattern) > 0 /\ NCols(pattern) = 0 THEN Raise("IndexError")
    ELSE erle_rows(pattern, 1, <<>>)

\* the types of what encode_erle returned: erle_len2bytes(rlen) of an int64
\* rlen is int64, v[0], v[1], v[2] are uint8, the rest are literals and the
\* bytes of erle_len2bytes(nx), nx a Python int
erle_types(p) ==
    LET run(n) == [k \in 1..Len(erle_len2bytes(n).val) |-> "int64"] \o <<"uint8", "uint8", "uint8">>
        row(r) == IF r > 1 /\ RowRgb(p, r) = RowRgb(p, r - 1) THEN <<"int", "int", "int", "int">>
                  ELSE LET runs == row_runs(RowRgb(p, r))
                       IN Flatten([k \in 1..Len(runs) |-> run(runs[k].n)], 1, Len(runs))
    IN Flatten([r \in 1..NRows(p) |-> row(r)], 1, NRows(p)) \o <<"int", "int", "int">>

\* one run of encode_rle: a single group, or 255-pixel groups and a remainder
RECURSIVE rle_chop(_, _, _, _)
rle_chop(rlen, px, counter, acc) ==
    IF ~(counter < rlen) THEN acc
    ELSE LET end_pt == Min(counter + RleMaxRun, rlen) - 1
             current_len == end_pt - counter + 1
         IN rle_chop(rlen, px, end_pt + 1, acc \o <<current_len>> \o px)

rle_run(rlen, px) ==
    IF rlen <= RleMaxRun THEN <<rlen>> \o px ELSE rle_chop(rlen, px, 0, <<>>)

rle_runs(runs) ==
    Flatten([k \in 1..Len(runs) |-> rle_run(runs[k].n, runs[k].px)], 1, Len(runs))

RECURSIVE rle_rows(_, _, _)
rle_rows(p, r, acc) ==
    IF r > NRows(p) THEN Ok(acc \o <<0>>)
    ELSE IF r > 1 /\ RowRgb(p, r) = RowRgb(p, r - 1)
         THEN LET rc == row_copy(NCols(p)) IN
              IF rc.err # "none" THEN rc ELSE rle_rows(p, r + 1, acc \o rc.val)
         ELSE rle_rows(p, r + 1, acc \o rle_runs(row_runs(RowRgb(p, r))))

encode_rle(pattern) ==
    IF NRows(pattern) > 0 /\ NCols(pattern) = 0 THEN Raise("IndexError")
    ELSE rle_rows(pattern, 1, <<>>)

\* the types of what encode_rle returned: rlen and current_len are int64,
\* v[0], v[1], v[2] are uint8, the rest are literals and the bytes of
\* erle_len2bytes(nx), nx a Python int
rle_types(p) ==
    LET row(r) == IF r > 1 /\ RowRgb(p, r) = RowRgb(p, r - 1) THEN <<"int", "int", "int", "int">>
                  ELSE LET groups == rle_runs(row_runs(RowRgb(p, r)))
                       IN [k \in 1..Len(groups) |-> IF k % 4 = 1 THEN "int64" ELSE "uint8"]
    IN Flatten([r \in 1..NRows(p) |-> row(r)], 1, NRows(p)) \o <<"int">>

----------------------------------------------------------------------------
(* dlp_compression.py: decoder *)

\* np.zeros((3, nx)): the line buffer, as <<R row, G row, B row>>
ZeroLine(nx) == [pl \in 1..3 |-> [c \in 1..nx |-> 0]]

\* current_line[:, lp:hi] = previous[:, lp:hi] (both slices clipped to nx)
CopyFromPrev(cur, prev, lp, hi, nx) ==
    [pl \in 1..3 |-> [c \in 1..nx |->
        IF c - 1 >= lp /\ c - 1 < hi THEN prev[pl][c] ELSE cur[pl][c]]]

\* current_line[pl, lp:hi] = px[pl] for the three planes
FillRun(cur, px, lp, hi, nx) ==
    [pl \in 1..3 |-> [c \in 1..nx |->
        IF c - 1 >= lp /\ c - 1 < hi THEN px[pl] ELSE cur[pl][c]]]

\* current_line[pl, line_pos + jj] = int(b[ii + 3 jj + pl]) for jj in range(n),
\* a later jj writing over an earlier one that met the same column
FillRaw(np, cur, b, i, lp, n, nx) ==
    [pl \in 1..3 |-> [c \in 1..nx |->
        LET js == {jj \in 0..n - 1 : Add(np, lp, PyInt(jj)).v = c - 1} IN
        IF js = {} THEN cur[pl][c]
        ELSE LET jj == CHOOSE x \in js : \A y \in js : y <= x
             IN  b[Add(np, Add(np, i, PyInt(3 * jj)), PyInt(pl - 1)).v + 1].v]]

RECURSIVE decode_loop(_, _, _, _, _, _, _, _)

\* lines 213-223: the row above is copied; the right side of line 221 is
\* evaluated first, its slice bound before its row index
decode_copy(np, nx, b, i, ln, lp, cur, rgb) ==
    LET at == Add(np, i, PyInt(2)) IN
    IF at.v >= Len(b) THEN Raise("IndexError")
    ELSE LET short == b[at.v + 1].v < 128
             n_to_copy == IF short THEN b[at.v + 1]
                          ELSE erle_bytes2len(np, Slice(b, at.v, Add(np, i, PyInt(4)).v))
             i2 == Add(np, i, PyInt(IF short THEN 3 ELSE 4))
             hi == Add(np, lp, n_to_copy)
         IN  IF Threw(hi) THEN Raise(hi.ty)
             ELSE IF ln = 0 THEN Raise("IndexError")
             ELSE decode_loop(np, nx, b, i2, ln, hi,
                              CopyFromPrev(cur, rgb[ln], lp.v, hi.v, nx), rgb)

\* lines 225-238: n_unencoded pixels follow as they are; for each jj the byte
\* is read before the column is addressed
decode_raw(np, nx, b, i, ln, lp, cur, rgb) ==
    LET at == Add(np, i, PyInt(1))
        short == b[at.v + 1].v < 128
        n_unencoded == IF short THEN b[at.v + 1]
                       ELSE erle_bytes2len(np, Slice(b, at.v, Add(np, i, PyInt(3)).v))
        i2 == Add(np, i, PyInt(IF short THEN 2 ELSE 3))
        src(jj) == Add(np, i2, PyInt(3 * jj))
        col(jj) == Add(np, lp, PyInt(jj))
        err(jj) == IF Threw(src(jj)) THEN src(jj).ty
                   ELSE IF src(jj).v >= Len(b) THEN "IndexError"
                   ELSE IF Threw(col(jj)) THEN col(jj).ty
                   ELSE IF col(jj).v >= nx THEN "IndexError"
                   ELSE IF Add(np, src(jj), PyInt(1)).v >= Len(b) THEN "IndexError"
                   ELSE IF Add(np, src(jj), PyInt(2)).v >= Len(b) THEN "IndexError"
                   ELSE "none"
        bad == {jj \in 0..n_unencoded.v - 1 : err(jj) # "none"}
        i3 == Add(np, i2, Mul(np, PyInt(3), n_unencoded))
        lp2 == Add(np, lp, n_unencoded)
    IN  IF Threw(n_unencoded) THEN Raise(n_unencoded.ty)
        ELSE IF bad # {} THEN Raise(err(CHOOSE jj \in bad : \A k \in bad : jj <= k))
        ELSE IF Threw(i3) THEN Raise(i3.ty)
        ELSE IF Threw(lp2) THEN Raise(lp2.ty)
        ELSE decode_loop(np, nx, b, i3, ln, lp2,
                         FillRaw(np, cur, b, i2, lp, n_unencoded.v, nx), rgb)

\* lines 242-253: one pixel repeated block_len times; on line 249 the byte is
\* read, then the slice bound is computed, then the block is stored, which
\* fails unless it has the length of the slice or is a single pixel
decode_run(np, nx, b, i, ln, lp, cur, rgb) ==
    LET short == b[i.v + 1].v < 128
        block_len == IF short THEN b[i.v + 1]
                     ELSE erle_bytes2len(np, Slice(b, i.v, Add(np, i, PyInt(2)).v))
        i2 == Add(np, i, PyInt(IF short THEN 1 ELSE 2))
        hi == Add(np, lp, block_len)
        top == Min(hi.v, nx)
        room == IF top < lp.v THEN 0 ELSE top - lp.v
        g == Add(np, i2, PyInt(1))
        bl == Add(np, i2, PyInt(2))
    IN  IF Threw(block_len) THEN Raise(block_len.ty)
        ELSE IF i2.v >= Len(b) THEN Raise("IndexError")
        ELSE IF Threw(hi) THEN Raise(hi.ty)
        ELSE IF room # block_len.v /\ block_len.v # 1 THEN Raise("ValueError")
        ELSE IF g.v >= Len(b) \/ bl.v >= Len(b) THEN Raise("IndexError")
        ELSE decode_loop(np, nx, b, Add(np, i2, PyInt(3)), ln, hi,
                         FillRun(cur, <<b[i2.v + 1].v, b[g.v + 1].v, b[bl.v + 1].v>>,
                                 lp.v, hi.v, nx),
                         rgb)

\* the while loop of decode_erle; i is the source's 0-based cursor ii, and it
\* and line_pos are scalars: they take the type of what is added to them
decode_loop(np, nx, b, i, line_no, line_pos, cur, rgb) ==
    IF ~(i.v < Len(b)) THEN Ok(rgb)
    ELSE IF line_pos.v > nx THEN Raise("ValueError")
    ELSE
    LET full == line_pos.v = nx
        rgb1 == IF full THEN Append(rgb, cur) ELSE rgb
        cur1 == IF full THEN ZeroLine(nx) ELSE cur
        lp == IF full THEN PyInt(0) ELSE line_pos
        ln == IF full THEN line_no + 1 ELSE line_no
    IN
    IF i.v = Len(b) - 1 THEN (IF b[i.v + 1].v = 0 THEN Ok(rgb1) ELSE Raise("ValueError"))
    ELSE IF b[i.v + 1].v = 0 THEN
        LET ctl == b[Add(np, i, PyInt(1)).v + 1].v IN
        IF ctl = 0 THEN decode_loop(np, nx, b, Add(np, i, PyInt(1)), ln, lp, cur1, rgb1)
        ELSE IF ctl = 1 THEN decode_copy(np, nx, b, i, ln, lp, cur1, rgb1)
        ELSE decode_raw(np, nx, b, i, ln, lp, cur1, rgb1)
    ELSE decode_run(np, nx, b, i, ln, lp, cur1, rgb1)

\* rgb_pattern, a list of 3 x nx lines, as the 3 x rows x nx image
LinesToImage(lines) == [pl \in 1..3 |-> [r \in 1..Len(lines) |-> lines[r][pl]]]

decode_erle(np, dmd_size, pattern_bytes) ==
    LET res == decode_loop(np, dmd_size[2], pattern_bytes, PyInt(0), 0, PyInt(0),
                           ZeroLine(dmd_size[2]), <<>>) IN
    IF res.err # "none" THEN res ELSE Ok(LinesToImage(res.val))

----------------------------------------------------------------------------
(* dlp_compression.py: 24-plane combine and split *)

\* patterns per combined RGB frame
PerFrame == 24

CeilDiv(a, b) == (a + b - 1) \div b

IsBinary(patterns) ==
    \A i \in 1..Len(patterns) : \A r \in 1..Len(patterns[i]) :
        \A c \in 1..Len(patterns[i][r]) : patterns[i][r][c] \in {0, 1}

\* the += of one colour plane at one pixel: of the cnt patterns of the frame
\* that starts at pattern base, those numbered lo..lo+7, pattern lo + k weighted 2^k
RECURSIVE PlaneSum(_, _, _, _, _, _, _)
PlaneSum(patterns, base, cnt, lo, k, r, c) ==
    IF k > 7 \/ lo + k >= cnt THEN 0
    ELSE (patterns[base + lo + k + 1][r][c] * 2^k
          + PlaneSum(patterns, base, cnt, lo, k + 1, r, c)) % 256

\* a combination with the first eight patterns in the R plane
combined_frame_rgb(patterns, num_pat) ==
    LET cnt == Min(PerFrame, Len(patterns) - PerFrame * num_pat)
        h == Len(patterns[1])
        w == Len(patterns[1][1])
    IN  [pl \in 1..3 |-> [r \in 1..h |-> [c \in 1..w |->
            PlaneSum(patterns, PerFrame * num_pat, cnt, 8 * (pl - 1), 0, r, c)]]]

\* combined_pattern_current of frame num_pat, filled from the patterns
\* range(min(24, n - 24 num_pat)) of it: plane 0 (R) holds patterns 16..23,
\* plane 1 (G) patterns 8..15, plane 2 (B) patterns 0..7
combined_frame(patterns, num_pat) ==
    LET cnt == Min(PerFrame, Len(patterns) - PerFrame * num_pat)
        h == Len(patterns[1])
        w == Len(patterns[1][1])
    IN  [pl \in 1..3 |-> [r \in 1..h |-> [c \in 1..w |->
            PlaneSum(patterns, PerFrame * num_pat, cnt, 8 * (3 - pl), 0, r, c)]]]

combine_patterns(patterns) ==
    IF ~IsBinary(patterns) THEN Raise("ValueError")
    ELSE Ok([k \in 1..CeilDiv(Len(patterns), PerFrame) |-> combined_frame(patterns, k - 1)])

\* x >> s of a uint8 x: nothing is left from 8 places on
ShiftRight(x, s) == IF s >= 8 THEN 0 ELSE x \div 2^s

\* (x & 2**k) >> s on uint8, k in 0..7
MaskShift(x, k, s) == ShiftRight(((x \div 2^k) % 2) * 2^k, s)

\* the shift split_combined_patterns applies to pattern ii of the R plane
split_shift_r(i) == i + 8

\* patterns[ii] of split_combined_patterns, ii = 0..23
split_plane(combined, i) ==
    IF i < 8 THEN [r \in 1..NRows(combined) |-> [c \in 1..NCols(combined) |->
                     MaskShift(combined[3][r][c], i, i)]]
    ELSE IF i < 16 THEN [r \in 1..NRows(combined) |-> [c \in 1..NCols(combined) |->
                     MaskShift(combined[2][r][c], i - 8, i - 8)]]
    ELSE [r \in 1..NRows(combined) |-> [c \in 1..NCols(combined) |->
                     MaskShift(combined[1][r][c], i - 16, split_shift_r(i))]]

split_combined_patterns(combined) == [i \in 1..PerFrame |-> split_plane(combined, i - 1)]

----------------------------------------------------------------------------
(* Inputs: images and pattern stacks, named by small descriptors *)

\* combined frames of the largest pattern stack given to combine_patterns or uploaded
MaxFrames == 2

Colors == {<<0, 0, 0>>, <<200, 1, 255>>}

\* image widths: the small ones, and those around the two-byte length form and
\* the RLE group limit
Widths == (1..MaxSmallW) \cup
          {TwoByteMin - 1, TwoByteMin, RleMaxRun, RleMaxRun + 1, 2 * RleMaxRun + 1}

\* a row as a list of maximal runs [n, px]: one colour, or two colours meeting
\* one pixel from either end
RowSpecs(w) ==
    {<<[n |-> w, px |-> c]>> : c \in Colors} \cup
    {<<[n |-> s, px |-> cd[1]], [n |-> w - s, px |-> cd[2]]>> :
        s \in {x \in {1, w - 1} : 0 < x /\ x < w},
        cd \in {y \in Colors \X Colors : y[1] # y[2]}}

ImageInputs ==
    UNION {UNION {{[t |-> "image", w |-> w, rows |-> rs] : rs \in [1..h -> RowSpecs(w)]}
                  : h \in 1..MaxH} : w \in Widths}

\* the pixel at 1-based column c of a row given by its runs
RowPixel(spec, c) == IF c <= spec[1].n THEN spec[1].px ELSE spec[2].px

\* the 3 x H x W uint8 array an image descriptor names
Image(d) ==
    [pl \in 1..3 |-> [r \in 1..Len(d.rows) |-> [c \in 1..d.w |-> RowPixel(d.rows[r], c)[pl]]]]

\* the value of pattern i at (r, c), all 0-based, of a pattern stack descriptor
Pixel(d, i, r, c) ==
    CASE d.kind = "flat" -> 0
      [] d.kind = "ones" -> 1
      [] d.kind = "checker" -> (r + c) % 2
      [] d.kind = "late" -> IF i < PerFrame THEN 0 ELSE (r + c) % 2
      [] d.kind = "step" -> IF c <= i \div 12 THEN 1 ELSE 0
      [] d.kind = "onehot" -> IF i = d.hot THEN 1 ELSE 0
      [] d.kind = "nonbinary" -> IF i = d.n - 1 /\ r = 0 /\ c = 0 THEN 2 ELSE 0

\* the n x h x w uint8 array a pattern stack descriptor names
Patterns(d) ==
    [i \in 1..d.n |-> [r \in 1..d.h |-> [c \in 1..d.w |-> Pixel(d, i - 1, r - 1, c - 1)]]]

Stack(n, h, w, kind, hot) == [t |-> "frames", n |-> n, h |-> h, w |-> w, kind |-> kind, hot |-> hot]

FrameInputs ==
    UNION {UNION {{Stack(n, hw[1], hw[2], "onehot", j) : j \in 0..n - 1}
                  \cup {Stack(n, hw[1], hw[2], "ones", 0), Stack(n, hw[1], hw[2], "nonbinary", 0)}
                  : n \in 1..PerFrame * MaxFrames + 1} : hw \in {<<1, 1>>, <<2, 2>>}}

----------------------------------------------------------------------------
(* The codec functions applied to the inputs *)

NoResult == [err |-> "unset", val |-> <<>>]

\* the lengths handed to erle_len2bytes: all it accepts and one beyond either end
LenInputs == {[t |-> "len", n |-> n] : n \in -1..2^15}

\* self.on_the_fly_patterns = None: no stack of patterns is recorded
NoPatterns == [kind |-> "None"]

InitCodec ==
    /\ cin \in ImageInputs \cup FrameInputs \cup LenInputs
    /\ cstage = "input"
    /\ cenc = NoResult
    /\ cdec = NoResult
    /\ dual_controller = FALSE
    /\ on_the_fly_patterns = NoPatterns
    /\ pc = "idle"
    /\ call = [op |-> "none"]
    /\ ii = 0
    /\ todo = <<>>
    /\ cmds = <<>>
    /\ after = "none"
    /\ result = "none"
    /\ faults = 0
    /\ sstage = "unused"
    /\ sin = [t |-> "none"]
    /\ buffer = <<>>
    /\ data_counter = 0
    /\ packets = <<>>
    /\ reply = <<>>
    /\ response = [err |-> "unset", val |-> <<>>]
    /\ dmd = "open"
    /\ timeouts = 0
    /\ tpc = <<>>
    /\ tlocal = <<>>
    /\ lock = "none"
    /\ sock = [cur |-> 0]
    /\ wire = <<>>
    /\ gui = [dlp |-> "None"]
    /\ ops = 0

EncodeErle ==
    /\ cstage = "input" /\ cin.t = "image"
    /\ cenc' = Listed(encode_erle(Image(cin)), erle_types(Image(cin)))
    /\ cstage' = "erle"
    /\ UNCHANGED <<cin, cdec>>
    /\ UNCHANGED <<dvars, svars, avars>>

EncodeRle ==
    /\ cstage = "input" /\ cin.t = "image"
    /\ cenc' = Listed(encode_rle(Image(cin)), rle_types(Image(cin)))
    /\ cstage' = "rle"
    /\ UNCHANGED <<cin, cdec>>
    /\ UNCHANGED <<dvars, svars, avars>>

\* decode_erle((H, W), encoded) on what either encoder returned, under
\* either numpy
DecodeErle ==
    /\ cstage \in {"erle", "rle"} /\ cenc.err = "none"
    /\ \E np \in NumpyRules :
          LET res == decode_erle(np, <<Len(cin.rows), cin.w>>, ScalarList(cenc.val, cenc.ty))
          IN  cdec' = [err |-> res.err, val |-> res.val, numpy |-> np]
    /\ cstage' = IF cstage = "erle" THEN "erle_decoded" ELSE "rle_decoded"
    /\ UNCHANGED <<cin, cenc>>
    /\ UNCHANGED <<dvars, svars, avars>>

\* where an encoded stream is cut short: anywhere for the small images, before
\* its terminator or its last byte for the others
Cuts(stream, w) ==
    IF w <= MaxSmallW THEN 0..(Len(stream) - 1) ELSE {Len(stream) - 3, Len(stream) - 1}

Terminator == <<0, 1, 0>>

\* decode_erle((H, W), stream) on the first m bytes of what encode_erle
\* returned, as they are or closed with the image terminator
DecodeCut ==
    /\ cstage = "erle" /\ cenc.err = "none"
    /\ \E m \in Cuts(cenc.val, cin.w), closed \in BOOLEAN, np \in NumpyRules :
          LET stream == SubSeq(cenc.val, 1, m) \o (IF closed THEN Terminator ELSE <<>>)
              tys == SubSeq(cenc.ty, 1, m)
                     \o (IF closed THEN <<"int", "int", "int">> ELSE <<>>)
              res == decode_erle(np, <<Len(cin.rows), cin.w>>, ScalarList(stream, tys))
          IN  cdec' = [err |-> res.err, val |-> res.val, stream |-> stream, numpy |-> np]
    /\ cstage' = "cut_decoded"
    /\ UNCHANGED <<cin, cenc>>
    /\ UNCHANGED <<dvars, svars, avars>>

Combine ==
    /\ cstage = "input" /\ cin.t = "frames"
    /\ cenc' = combine_patterns(Patterns(cin))
    /\ cstage' = "combined"
    /\ UNCHANGED <<cin, cdec>>
    /\ UNCHANGED <<dvars, svars, avars>>

\* split_combined_patterns on combined frame k (1-based) of the list
Split ==
    /\ cstage = "combined" /\ cenc.err = "none"
    /\ \E k \in 1..Len(cenc.val) :
          cdec' = [err |-> "none", k |-> k, val |-> split_combined_patterns(cenc.val[k])]
    /\ cstage' = "split"
    /\ UNCHANGED <<cin, cenc>>
    /\ UNCHANGED <<dvars, svars, avars>>

LenToBytes ==
    /\ cstage = "input" /\ cin.t = "len"
    /\ cenc' = erle_len2bytes(cin.n)
    /\ cstage' = "len_bytes"
    /\ UNCHANGED <<cin, cdec>>
    /\ UNCHANGED <<dvars, svars, avars>>

\* erle_bytes2len on what erle_len2bytes returned
BytesToLen ==
    /\ cstage = "len_bytes" /\ cenc.err = "none"
    /\ \E np \in NumpyRules :
          LET length == erle_bytes2len(np, Ints(cenc.val))
          IN  cdec' = IF Threw(length) THEN Raise(length.ty) ELSE Ok(length.v)
    /\ cstage' = "len_decoded"
    /\ UNCHANGED <<cin, cenc>>
    /\ UNCHANGED <<dvars, svars, avars>>

NextCodec ==
    \/ EncodeErle \/ EncodeRle \/ DecodeErle \/ Combine \/ Split
    \/ LenToBytes \/ BytesToLen \/ DecodeCut

SpecCodec == InitCodec /\ [][NextCodec]_vars

----------------------------------------------------------------------------
(* Claims about the codec *)

\* C8: for every uint8 image p of shape 3 x H x W, encode_erle(p) completes and
\* decode_erle((H, W), encode_erle(p)) completes without error and equals p.
C8_ErleRoundTrip ==
    /\ cstage = "erle" => cenc.err = "none"
    /\ cstage = "erle_decoded" => cdec.err = "none" /\ cdec.val = Image(cin)

\* C9: for every uint8 image p of shape 3 x H x W, encode_rle(p) completes and
\* decode_erle((H, W), encode_rle(p)) completes without error and equals p.
C9_RleRoundTrip ==
    /\ cstage = "rle" => cenc.err = "none"
    /\ cstage = "rle_decoded" => cdec.err = "none" /\ cdec.val = Image(cin)

\* under either numpy, an image whose encoding holds a group of 128..255 pixels
\* does not come back from the decoder
RleWideRunNotRecovered ==
    (/\ cstage = "rle_decoded"
     /\ \E k \in 1..Len(cenc.val) : cenc.ty[k] = "int64" /\ cenc.val[k] \in TwoByteMin..RleMaxRun)
        => ~(cdec.err = "none" /\ cdec.val = Image(cin))

\* the decoder's outcome on an encode_rle list that differs with the numpy:
\* the 3 x 1 x 128 image of (200, 1, 255) raises ValueError on numpy 1.x and
\* comes back without a row on numpy 2
RleOutcomeByNumpy ==
    (/\ cstage = "rle_decoded" /\ cenc.val = <<128, 200, 1, 255, 0>>)
        => IF cdec.numpy = "legacy" THEN cdec.err = "ValueError"
           ELSE cdec.err = "none" /\ NRows(cdec.val) = 0

\* C10: split_combined_patterns applied to combined frame k of N binary frames
\* returns 24 frames whose entry i is input frame 24k+i when 24k+i < N, and all
\* zero otherwise.
C10_SplitInvertsCombine ==
    cstage = "split" =>
        \A i \in 0..PerFrame - 1 :
            LET src == PerFrame * (cdec.k - 1) + i IN
            cdec.val[i + 1] = IF src < cin.n THEN Patterns(cin)[src + 1]
                              ELSE [r \in 1..cin.h |-> [c \in 1..cin.w |-> 0]]

\* C11: for every n in 0..32767, erle_len2bytes(n) is the one byte [n] when
\* n < 128 and the two bytes [(n & 0x7F) | 0x80, n >> 7] when n >= 128, and
\* erle_bytes2len gives n back; 5 -> [5], 200 -> [0xC8, 0x01], 32767 -> [0xFF, 0xFF].
C11_LenRoundTrip ==
    (cin.t = "len" /\ cin.n \in 0..32767) =>
        /\ cstage = "len_bytes" =>
              /\ cenc.err = "none"
              /\ Len(cenc.val) = IF cin.n < 128 THEN 1 ELSE 2
              /\ cin.n < 128 => cenc.val = <<cin.n>>
              /\ cin.n >= 128 => /\ cenc.val[1] \in 128..255
                                 /\ cenc.val[1] - 128 = cin.n % 128
                                 /\ cenc.val[2] = cin.n \div 128
              /\ cin.n = 5 => cenc.val = <<5>>
              /\ cin.n = 200 => cenc.val = <<200, 1>>
              /\ cin.n = 32767 => cenc.val = <<255, 255>>
        /\ cstage = "len_decoded" => cdec = Ok(cin.n)

C11_Witness ==
    /\ cin.t = "len" /\ cin.n = 32767
    /\ cstage = "len_decoded" /\ cenc.val = <<255, 255>> /\ cdec.val = 32767

EndsWithTerminator(stream) ==
    Len(stream) >= 3 /\ SubSeq(stream, Len(stream) - 2, Len(stream)) = Terminator

\* C17: decode_erle fails with an error whenever the stream ends without a
\* terminator or before H rows have been produced; it never returns an image
\* with fewer than H rows.
C17_TruncatedStreamFails ==
    cstage = "cut_decoded" =>
        /\ ~EndsWithTerminator(cdec.stream) => cdec.err # "none"
        /\ cdec.err = "none" => NRows(cdec.val) = Len(cin.rows)

----------------------------------------------------------------------------
(* dlp_driver.py: constants of dlpc900_dmd and its two device classes *)

max_lut_index == 511
min_time_us == 105
max_cmd_payload == 504

\* command_dict
Read_Error_Description == 257   \* 0x0101
PAT_START_STOP == 6692          \* 0x1A24
DISP_MODE == 6683               \* 0x1A1B
MBOX_DATA == 6708               \* 0x1A34
PAT_CONFIG == 6705              \* 0x1A31
PATMEM_LOAD_INIT_MASTER == 6698       \* 0x1A2A
PATMEM_LOAD_DATA_MASTER == 6699       \* 0x1A2B
PATMEM_LOAD_INIT_SECONDARY == 6700    \* 0x1A2C
PATMEM_LOAD_DATA_SECONDARY == 6701    \* 0x1A2D
TRIG_IN1_CTL == 6709            \* 0x1A35
TRIG_IN2_CTL == 6710            \* 0x1A36

pattern_modes == ("video" :> 0) @@ ("pre-stored" :> 1) @@ ("video-pattern" :> 2) @@ ("on-the-fly" :> 3)

compression_modes == ("none" :> 0) @@ ("rle" :> 1) @@ ("erle" :> 2)

\* dlp6500 (single controller) and dlp9000 (dual controller)
dmd_width(dual) == IF dual THEN 2560 ELSE 1920
dmd_height(dual) == IF dual THEN 1600 ELSE 1080

----------------------------------------------------------------------------
(* dlp_driver.py: the commands handed to send_command *)

\* unpack('BB', pack('<H', x)) and unpack('BBBB', pack('<I', x)), x in range
U16(x) == <<x % 256, (x \div 256) % 256>>
U32(x) == <<x % 256, (x \div 256) % 256, (x \div 65536) % 256, (x \div 16777216) % 256>>

\* one send_command(rw_mode, reply, command, data, sequence_byte); resp is the
\* reply the device gave: none (not asked for), ok, err (error flag set) or
\* empty (the read timed out)
Cmd(rw, rep, cmd, data, seq) ==
    [rw |-> rw, reply |-> rep, cmd |-> cmd, data |-> data, seq |-> seq, resp |-> "none"]

\* a driver whose start_stop_sequence starts the sequence whatever it is asked
always_start(c) == Cmd("w", FALSE, PAT_START_STOP, <<2>>, 8)

start_stop_sequence(c) ==
    IF c = "start" THEN Cmd("w", FALSE, PAT_START_STOP, <<2>>, 8)
    ELSE IF c = "stop" THEN Cmd("w", FALSE, PAT_START_STOP, <<0>>, 5)
    ELSE Cmd("w", FALSE, PAT_START_STOP, <<1>>, 0)

set_pattern_mode(mode) == Cmd("w", TRUE, DISP_MODE, <<pattern_modes[mode]>>, 0)

read_error_description == Cmd("r", TRUE, Read_Error_Description, <<>>, 0)

get_trigger_in1 == Cmd("r", TRUE, TRIG_IN1_CTL, <<>>, 0)
get_trigger_in2 == Cmd("r", TRUE, TRIG_IN2_CTL, <<>>, 0)

pattern_display_lut_configuration(num_patterns, num_repeat) ==
    Cmd("w", TRUE, PAT_CONFIG, U16(num_patterns) \o U32(num_repeat), 0)

\* a misc byte read off misc_byte_str without the reversal
misc_byte_unreversed(wait_for_trigger, clear_pattern_after_trigger) ==
    (IF wait_for_trigger THEN 1 ELSE 0) + 8 + (IF clear_pattern_after_trigger THEN 128 ELSE 0)

\* misc_byte_str is written clear, '000', '100', wait and then reversed: wait is
\* the first character of the reversed string, clear the last
misc_byte(wait_for_trigger, clear_pattern_after_trigger) ==
    (IF wait_for_trigger THEN 128 ELSE 0) + 16 + (IF clear_pattern_after_trigger THEN 1 ELSE 0)

pattern_display_lut_definition(sequence_position_index, exposure_time_us, dark_time_us, wait_for_trigger, clear_pattern_after_trigger, stored_image_index, stored_image_bit_index) ==
    Cmd("w", TRUE, MBOX_DATA,
        U16(sequence_position_index) \o SubSeq(U32(exposure_time_us), 1, 3)
        \o <<misc_byte(wait_for_trigger, clear_pattern_after_trigger)>>
        \o U16(dark_time_us) \o <<0>> \o <<0>>
        \o <<stored_image_index>> \o <<8 * stored_image_bit_index>>, 0)

init_pattern_bmp_load(pattern_length, pattern_index, primary_controller) ==
    Cmd("w", TRUE,
        IF primary_controller THEN PATMEM_LOAD_INIT_MASTER ELSE PATMEM_LOAD_INIT_SECONDARY,
        U16(pattern_index) \o U32(pattern_length), 0)

\* the 48-byte header general_data of _pattern_bmp_load
bmp_header(dual, compressed_len, compression_mode) ==
    <<83, 112, 108, 100>>
    \o U16(IF dual THEN dmd_width(dual) \div 2 ELSE dmd_width(dual))
    \o U16(dmd_height(dual))
    \o U32(compressed_len)
    \o [k \in 1..8 |-> 255] \o [k \in 1..4 |-> 0]
    \o <<1>> \o <<compression_modes[compression_mode]>> \o <<1>> \o <<0, 0>> \o <<1>>
    \o [k \in 1..18 |-> 0]

\* a loader that counts the two length bytes within the 504
bmp_data_chunk_short(data) == SubSeq(data, 1, Min(max_cmd_payload - 2, Len(data)))

\* one data command of _pattern_bmp_load: the next chunk of data, length first
bmp_data_chunk(data) == SubSeq(data, 1, Min(max_cmd_payload, Len(data)))

pattern_bmp_data(data, primary_controller) ==
    Cmd("w", FALSE,
        IF primary_controller THEN PATMEM_LOAD_DATA_MASTER ELSE PATMEM_LOAD_DATA_SECONDARY,
        U16(Len(bmp_data_chunk(data))) \o bmp_data_chunk(data), 0)

\* a LUT that points each position at the image after its own
index_2pic_next(i) == (i \div PerFrame) + 1

\* _index_2pic_bit
index_2pic(i) == i \div PerFrame

\* a bit index taken within the colour byte instead of within the picture
bit_in_byte(i) == i % 8
index_2bit(i) == i - PerFrame * index_2pic(i)

\* a split that hands the right part to the primary controller
SwappedHalf(frame, left) ==
    LET w == NCols(frame)
        lw == (w + 1) \div 2
    IN [pl \in 1..3 |-> [r \in 1..NRows(frame) |->
           IF left THEN [c \in 1..w - lw |-> frame[pl][r][lw + c]]
           ELSE [c \in 1..lw |-> frame[pl][r][c]]]]

\* np.array_split(dmd_pattern, 2, axis=-1): the left part takes the odd column
SplitHalf(frame, left) ==
    LET w == NCols(frame)
        lw == (w + 1) \div 2
    IN [pl \in 1..3 |-> [r \in 1..NRows(frame) |->
           IF left THEN [c \in 1..lw |-> frame[pl][r][c]]
           ELSE [c \in 1..w - lw |-> frame[pl][r][lw + c]]]]

\* exp_times * n when one value is given for more than one entry
Broadcast(x, n) == IF n > 1 /\ Len(x) = 1 THEN [k \in 1..n |-> x[1]] ELSE x

----------------------------------------------------------------------------
(* The device and the calls made on the driver *)

MaxFaults == 1      \* replies with the error flag set, or missing, per call
MaxFaultPos == 8    \* a fault happens among the first MaxFaultPos commands
FaultStack == 1     \* calls with up to FaultStack patterns or indices meet faults

\* patterns of an upload, indices of the other calls
call_size == IF call.op = "upload" THEN call.pat.n ELSE Len(call.inds)

\* what the device may answer to a command sent with reply=True: what the
\* driver does with an answer does not depend on the number of patterns
Replies ==
    IF faults < MaxFaults /\ Len(cmds) < MaxFaultPos /\ call_size <= FaultStack
    THEN {"ok", "err", "empty"} ELSE {"ok"}

\* send_command(..., reply=False, ...)
Send(c) == cmds' = Append(cmds, c)

\* the method raises: nothing more is sent
Raises(kind) == pc' = "idle" /\ result' = kind /\ after' = "none"

\* send_command(..., reply=True, ...) followed by what the caller does with the
\* buffer: decode_response raises ValueError on an empty buffer (onEmpty =
\* "raise") unless the caller tests for it first (onEmpty = "describe"); a set
\* error flag makes the caller print read_error_description() and carry on
\* (onErr = "describe") or is not looked at (onErr = "ignore")
Exchange(c, next, onErr, onEmpty) ==
    \E r \in Replies :
        LET describe == IF r = "err" THEN onErr = "describe"
                        ELSE IF r = "empty" THEN onEmpty = "describe" ELSE FALSE
            raise == r = "empty" /\ onEmpty = "raise"
        IN  /\ cmds' = Append(cmds, [c EXCEPT !.resp = r])
            /\ faults' = IF r = "ok" THEN faults ELSE faults + 1
            /\ pc' = IF raise THEN "idle" ELSE IF describe THEN "errdesc" ELSE next
            /\ after' = IF describe THEN next ELSE "none"
            /\ result' = IF raise THEN "ValueError" ELSE result

\* upload_pattern_sequence(stack) with every other argument at its default
UploadDefaults(stack, trig) ==
    [op |-> "upload", pat |-> stack, dtype |-> "uint8", exp |-> <<min_time_us>>, dark |-> <<0>>,
     triggered |-> trig, clear |-> FALSE, bit_depth |-> 1, num_repeats |-> 0,
     compression |-> "erle"]

StackSizes == {PerFrame * (k - 1) + r : k \in 1..MaxFrames, r \in {1, PerFrame}}

\* columns of the uploaded patterns: as on the devices (1920, and 1280 per
\* controller of the dual one) each controller's part is wide enough for the
\* two-byte length form
UploadW == 2 * TwoByteMin

UploadStacks ==
    {Stack(n, 1, UploadW, "step", 0) : n \in StackSizes}
    \cup {Stack(2, 2, UploadW, "step", 0), Stack(PerFrame + 1, 1, UploadW, "late", 0),
          Stack(1, 1, UploadW, "checker", 0), Stack(2, 1, UploadW, "nonbinary", 0),
          Stack(max_lut_index + 1, 1, UploadW, "flat", 0)}

TriggeredStacks == {Stack(n, 1, UploadW, "step", 0) : n \in {1, PerFrame + 1}}

UploadVariants ==
    LET d == UploadDefaults(Stack(3, 1, UploadW, "step", 0), FALSE)
    IN  {[d EXCEPT !.exp = e] : e \in {<<min_time_us - 1>>, <<105, 200, 70000>>, <<105, 200>>}}
        \cup {[d EXCEPT !.dark = k] : k \in {<<5, 6, 300>>, <<5, 6>>}}
        \cup {[d EXCEPT !.compression = m] : m \in {"rle", "none", "bogus"}}
        \cup {[d EXCEPT !.dtype = "float64"], [d EXCEPT !.clear = TRUE],
              [d EXCEPT !.bit_depth = 8], [d EXCEPT !.num_repeats = 3],
              [d EXCEPT !.dtype = "float64", !.compression = "bogus"]}

UploadCalls ==
    {UploadDefaults(st, FALSE) : st \in UploadStacks}
    \cup {UploadDefaults(st, TRUE) : st \in TriggeredStacks}
    \cup UploadVariants

\* set_pattern_sequence(pattern_indices) with every other argument at its default
SetDefaults(inds, trig) ==
    [op |-> "set", inds |-> inds, exp |-> <<min_time_us>>, dark |-> <<0>>,
     triggered |-> trig, clear |-> TRUE, bit_depth |-> 1, num_repeats |-> 0,
     mode |-> "pre-stored"]

IndexLists == {<<>>, <<0>>, <<5>>, <<0, 1, 2>>, <<24, 47, 3>>, <<30, 31>>}

SetVariants ==
    LET d == SetDefaults(<<0, 25, 50>>, FALSE)
    IN  {[d EXCEPT !.exp = e] : e \in {<<min_time_us - 1>>, <<105, 200, 70000>>, <<105, 200>>,
                                        <<105, 200, 300, 400>>}}
        \cup {[d EXCEPT !.dark = k] : k \in {<<5, 6, 300>>, <<5, 6>>}}
        \cup {[d EXCEPT !.mode = m] : m \in {"on-the-fly", "video", "bogus"}}
        \cup {[d EXCEPT !.clear = FALSE], [d EXCEPT !.bit_depth = 8], [d EXCEPT !.num_repeats = 3],
              [d EXCEPT !.inds = <<30, 31>>, !.mode = "on-the-fly"],
              [d EXCEPT !.inds = [k \in 1..max_lut_index + 1 |-> 0]]}

SetCalls == {SetDefaults(l, t) : l \in IndexLists, t \in BOOLEAN} \cup SetVariants

\* program_dmd_seq: inds is what get_dmd_sequence returned for the arguments;
\* set_pattern_sequence is then called with mode 'pre-stored' and its defaults
\* for dark_times, bit_depth and num_repeats
ProgramCalls ==
    {[op |-> "program", inds |-> l, exp |-> e, dark |-> <<0>>, triggered |-> t, clear |-> c,
      bit_depth |-> 1, num_repeats |-> 0, mode |-> "pre-stored"] :
        l \in IndexLists, e \in {<<min_time_us>>, <<200>>}, t \in BOOLEAN, c \in BOOLEAN}

----------------------------------------------------------------------------
(* dlp_driver.py: upload_pattern_sequence, one action per command written *)

Init ==
    /\ dual_controller \in BOOLEAN
    /\ on_the_fly_patterns = NoPatterns
    /\ pc = "idle"
    /\ call = [op |-> "none"]
    /\ ii = 0
    /\ todo = <<>>
    /\ cmds = <<>>
    /\ after = "none"
    /\ result = "none"
    /\ faults = 0
    /\ sstage = "unused"
    /\ sin = [t |-> "none"]
    /\ buffer = <<>>
    /\ data_counter = 0
    /\ packets = <<>>
    /\ reply = <<>>
    /\ response = [err |-> "unset", val |-> <<>>]
    /\ dmd = "open"
    /\ timeouts = 0
    /\ tpc = <<>>
    /\ tlocal = <<>>
    /\ lock = "none"
    /\ sock = [cur |-> 0]
    /\ wire = <<>>
    /\ gui = [dlp |-> "None"]
    /\ ops = 0
    /\ cin = [t |-> "none"]
    /\ cstage = "unused"
    /\ cenc = NoResult
    /\ cdec = NoResult

\* the checks made before the first command (lines 899-940)
upload_validate(a) ==
    IF a.dtype # "uint8" THEN "ValueError"
    ELSE IF a.compression \notin DOMAIN compression_modes THEN "ValueError"
    ELSE IF a.compression # "erle" THEN "NotImplementedError"
    ELSE "ok"

\* exp_times and dark_times as the LUT loop sees them
exp_times == Broadcast(call.exp, IF call.op = "upload" THEN call.pat.n ELSE Len(call.inds))
dark_times == Broadcast(call.dark, IF call.op = "upload" THEN call.pat.n ELSE Len(call.inds))

\* a LUT loop that stops after its first entry
one_lut_entry == Min(1, call.pat.n)

\* iterations of for ... in enumerate(zip(patterns, exp_times, dark_times))
upload_lut_len == Min(call.pat.n, Min(Len(exp_times), Len(dark_times)))

CallUpload ==
    /\ pc = "idle" /\ result = "none"
    /\ \E a \in UploadCalls :
          /\ call' = a
          /\ on_the_fly_patterns' = IF upload_validate(a) = "ok" THEN a.pat ELSE on_the_fly_patterns
          /\ pc' = IF upload_validate(a) = "ok" THEN "u_stop1" ELSE "idle"
          /\ result' = IF upload_validate(a) = "ok" THEN "running" ELSE upload_validate(a)
    /\ UNCHANGED <<dual_controller, ii, todo, cmds, after, faults>>
    /\ UNCHANGED <<cvars, svars, avars>>

U_Stop1 ==
    /\ pc = "u_stop1"
    /\ Send(start_stop_sequence("stop"))
    /\ pc' = "u_mode"
    /\ UNCHANGED <<dual_controller, on_the_fly_patterns, call, ii, todo, after, result, faults>>
    /\ UNCHANGED <<cvars, svars, avars>>

U_Mode ==
    /\ pc = "u_mode"
    /\ Exchange(set_pattern_mode("on-the-fly"), "u_stop2", "describe", "raise")
    /\ UNCHANGED <<dual_controller, on_the_fly_patterns, call, ii, todo>>
    /\ UNCHANGED <<cvars, svars, avars>>

U_Stop2 ==
    /\ pc = "u_stop2"
    /\ Send(start_stop_sequence("stop"))
    /\ ii' = 0
    /\ pc' = IF upload_lut_len > 0 THEN "u_lut" ELSE "u_cfg1"
    /\ UNCHANGED <<dual_controller, on_the_fly_patterns, call, todo, after, result, faults>>
    /\ UNCHANGED <<cvars, svars, avars>>

\* one iteration of the LUT loop (lines 953-965)
U_Lut ==
    /\ pc = "u_lut"
    /\ IF call.bit_depth # 1
       THEN Raises("NotImplementedError") /\ UNCHANGED <<cmds, faults, ii>>
       ELSE /\ Exchange(pattern_display_lut_definition(ii, exp_times[ii + 1], dark_times[ii + 1],
                            call.triggered, call.clear, index_2pic(ii), index_2bit(ii)),
                        IF ii + 1 < upload_lut_len THEN "u_lut" ELSE "u_cfg1",
                        "describe", "raise")
            /\ ii' = ii + 1
    /\ UNCHANGED <<dual_controller, on_the_fly_patterns, call, todo>>
    /\ UNCHANGED <<cvars, svars, avars>>

\* _pattern_display_lut_configuration(npatterns, num_repeats) at line 967
U_Cfg1 ==
    /\ pc = "u_cfg1"
    /\ IF call.pat.n > max_lut_index
       THEN Raises("ValueError") /\ UNCHANGED <<cmds, faults>>
       ELSE Exchange(pattern_display_lut_configuration(call.pat.n, call.num_repeats),
                     "u_combine", "describe", "raise")
    /\ UNCHANGED <<dual_controller, on_the_fly_patterns, call, ii, todo>>
    /\ UNCHANGED <<cvars, svars, avars>>

\* a loop over the frames that is not reversed, and a driver that never stops
\* after its start
forward_first(count) == 0
never_stop(triggered) == FALSE

\* reversed(list(enumerate(patterns))): the frame the loop starts with
first_uploaded(count) == count - 1

\* if triggered: self.start_stop_sequence('stop')
stop_after_start(triggered) == triggered

\* lines 972-976: combine_patterns, whose check of the values comes first
U_Combine ==
    /\ pc = "u_combine"
    /\ IF call.bit_depth # 1 THEN Raises("NotImplementedError") /\ ii' = ii
       ELSE IF ~IsBinary(Patterns(call.pat)) THEN Raises("ValueError") /\ ii' = ii
       ELSE /\ ii' = first_uploaded(CeilDiv(call.pat.n, PerFrame))
            /\ pc' = "u_frame"
            /\ UNCHANGED <<after, result>>
    /\ UNCHANGED <<dual_controller, on_the_fly_patterns, call, todo, cmds, faults>>
    /\ UNCHANGED <<cvars, svars, avars>>

\* the loads of combined frame k: for each controller, the compressed part
\* behind its header
frame_parts(k) ==
    LET frame == combined_frame(Patterns(call.pat), k)
    IN  IF dual_controller
        THEN <<[primary |-> TRUE, enc |-> encode_erle(SplitHalf(frame, TRUE))],
               [primary |-> FALSE, enc |-> encode_erle(SplitHalf(frame, FALSE))]>>
        ELSE <<[primary |-> TRUE, enc |-> encode_erle(frame)]>>

frame_loads(parts, k) ==
    [j \in 1..Len(parts) |->
        [primary |-> parts[j].primary, index |-> k,
         length |-> Len(parts[j].enc.val) + 48,
         data |-> bmp_header(dual_controller, Len(parts[j].enc.val), call.compression)
                  \o parts[j].enc.val]]

\* lines 982-985 and 989: the frame ii is compressed; both parts of a dual
\* device before either is loaded
U_Compress ==
    /\ pc = "u_frame"
    /\ \E parts \in {frame_parts(ii)} :
          LET bad == {j \in 1..Len(parts) : parts[j].enc.err # "none"}
          IN  IF bad # {}
              THEN Raises(parts[CHOOSE j \in bad : \A m \in bad : j <= m].enc.err) /\ todo' = todo
              ELSE /\ todo' = frame_loads(parts, ii)
                   /\ pc' = "u_init"
                   /\ UNCHANGED <<after, result>>
    /\ UNCHANGED <<dual_controller, on_the_fly_patterns, call, ii, cmds, faults>>
    /\ UNCHANGED <<cvars, svars, avars>>

\* _init_pattern_bmp_load within _pattern_bmp_load (lines 851-856)
U_Init ==
    /\ pc = "u_init"
    /\ Exchange(init_pattern_bmp_load(todo[1].length, todo[1].index, todo[1].primary),
                "u_data", "describe", "raise")
    /\ UNCHANGED <<dual_controller, on_the_fly_patterns, call, ii, todo>>
    /\ UNCHANGED <<cvars, svars, avars>>

\* one iteration of the data loop of _pattern_bmp_load (lines 864-872), and
\* what follows the last one
U_Data ==
    /\ pc = "u_data"
    /\ Send(pattern_bmp_data(todo[1].data, todo[1].primary))
    /\ LET rest == SubSeq(todo[1].data, Len(bmp_data_chunk(todo[1].data)) + 1, Len(todo[1].data))
       IN  IF rest # <<>>
           THEN todo' = [todo EXCEPT ![1].data = rest] /\ pc' = "u_data" /\ ii' = ii
           ELSE /\ todo' = Tail(todo)
                /\ pc' = IF Tail(todo) # <<>> THEN "u_init" ELSE IF ii > 0 THEN "u_frame" ELSE "u_cfg2"
                /\ ii' = IF Tail(todo) = <<>> /\ ii > 0 THEN ii - 1 ELSE ii
    /\ UNCHANGED <<dual_controller, on_the_fly_patterns, call, after, result, faults>>
    /\ UNCHANGED <<cvars, svars, avars>>

\* _pattern_display_lut_configuration(npatterns, num_repeats) at line 993
U_Cfg2 ==
    /\ pc = "u_cfg2"
    /\ Exchange(pattern_display_lut_configuration(call.pat.n, call.num_repeats),
                "u_start", "describe", "raise")
    /\ UNCHANGED <<dual_controller, on_the_fly_patterns, call, ii, todo>>
    /\ UNCHANGED <<cvars, svars, avars>>

U_Start ==
    /\ pc = "u_start"
    /\ Send(start_stop_sequence("start"))
    /\ pc' = IF stop_after_start(call.triggered) THEN "u_trig" ELSE "idle"
    /\ result' = IF stop_after_start(call.triggered) THEN result ELSE "returned"
    /\ UNCHANGED <<dual_controller, on_the_fly_patterns, call, ii, todo, after, faults>>
    /\ UNCHANGED <<cvars, svars, avars>>

U_TrigStop ==
    /\ pc = "u_trig"
    /\ Send(start_stop_sequence("stop"))
    /\ pc' = "idle"
    /\ result' = "returned"
    /\ UNCHANGED <<dual_controller, on_the_fly_patterns, call, ii, todo, after, faults>>
    /\ UNCHANGED <<cvars, svars, avars>>

\* print(self.read_error_description()) after a reply with the error flag set
\* (or, in set_pattern_sequence, after no reply to the LUT configuration)
ReadErrorDescription ==
    /\ pc = "errdesc"
    /\ Exchange(read_error_description, after, "ignore", "raise")
    /\ UNCHANGED <<dual_controller, on_the_fly_patterns, call, ii, todo>>
    /\ UNCHANGED <<cvars, svars, avars>>

----------------------------------------------------------------------------
(* dlp_driver.py: set_pattern_sequence and program_dmd_seq *)

\* the checks made before the first command (lines 1016-1049)
set_validate(a) ==
    IF a.mode = "on-the-fly" /\ ~(\E k \in 1..Len(a.inds) : index_2bit(a.inds[k]) = 0)
    THEN "ValueError" ELSE "ok"

\* iterations of for ... in enumerate(zip(exp_times, dark_times))
set_lut_len == Min(Len(exp_times), Len(dark_times))

CallSet ==
    /\ pc = "idle" /\ result = "none"
    /\ \E a \in SetCalls :
          /\ call' = a
          /\ pc' = IF set_validate(a) = "ok" THEN "s_stop1" ELSE "idle"
          /\ result' = IF set_validate(a) = "ok" THEN "running" ELSE set_validate(a)
    /\ UNCHANGED <<dual_controller, on_the_fly_patterns, ii, todo, cmds, after, faults>>
    /\ UNCHANGED <<cvars, svars, avars>>

S_Stop1 ==
    /\ pc = "s_stop1"
    /\ Send(start_stop_sequence("stop"))
    /\ pc' = "s_mode"
    /\ UNCHANGED <<dual_controller, on_the_fly_patterns, call, ii, todo, after, result, faults>>
    /\ UNCHANGED <<cvars, svars, avars>>

S_Mode ==
    /\ pc = "s_mode"
    /\ IF call.mode \notin DOMAIN pattern_modes
       THEN Raises("ValueError") /\ UNCHANGED <<cmds, faults>>
       ELSE Exchange(set_pattern_mode(call.mode), "s_stop2", "describe", "raise")
    /\ UNCHANGED <<dual_controller, on_the_fly_patterns, call, ii, todo>>
    /\ UNCHANGED <<cvars, svars, avars>>

S_Stop2 ==
    /\ pc = "s_stop2"
    /\ Send(start_stop_sequence("stop"))
    /\ ii' = 0
    /\ pc' = IF set_lut_len > 0 THEN "s_lut" ELSE "s_cfg"
    /\ UNCHANGED <<dual_controller, on_the_fly_patterns, call, todo, after, result, faults>>
    /\ UNCHANGED <<cvars, svars, avars>>

\* one iteration of the LUT loop (lines 1060-1071); pic_indices[ii] is
\* evaluated before the call
S_Lut ==
    /\ pc = "s_lut"
    /\ IF ii >= Len(call.inds)
       THEN Raises("IndexError") /\ UNCHANGED <<cmds, faults, ii>>
       ELSE IF call.bit_depth # 1
       THEN Raises("NotImplementedError") /\ UNCHANGED <<cmds, faults, ii>>
       ELSE /\ Exchange(pattern_display_lut_definition(ii, exp_times[ii + 1], dark_times[ii + 1],
                            call.triggered, call.clear,
                            index_2pic(call.inds[ii + 1]), index_2bit(call.inds[ii + 1])),
                        IF ii + 1 < set_lut_len THEN "s_lut" ELSE "s_cfg",
                        "describe", "raise")
            /\ ii' = ii + 1
    /\ UNCHANGED <<dual_controller, on_the_fly_patterns, call, todo>>
    /\ UNCHANGED <<cvars, svars, avars>>

\* lines 1073-1080: an empty buffer is tested for before decode_response
S_Cfg ==
    /\ pc = "s_cfg"
    /\ IF Len(call.inds) > max_lut_index
       THEN Raises("ValueError") /\ UNCHANGED <<cmds, faults>>
       ELSE Exchange(pattern_display_lut_configuration(Len(call.inds), call.num_repeats),
                     "s_start", "describe", "describe")
    /\ UNCHANGED <<dual_controller, on_the_fly_patterns, call, ii, todo>>
    /\ UNCHANGED <<cvars, svars, avars>>

S_Start ==
    /\ pc = "s_start"
    /\ Send(start_stop_sequence("start"))
    /\ pc' = IF stop_after_start(call.triggered) THEN "s_trig" ELSE "idle"
    /\ result' = IF stop_after_start(call.triggered) THEN result ELSE "returned"
    /\ UNCHANGED <<dual_controller, on_the_fly_patterns, call, ii, todo, after, faults>>
    /\ UNCHANGED <<cvars, svars, avars>>

S_TrigStop ==
    /\ pc = "s_trig"
    /\ Send(start_stop_sequence("stop"))
    /\ pc' = "idle"
    /\ result' = "returned"
    /\ UNCHANGED <<dual_controller, on_the_fly_patterns, call, ii, todo, after, faults>>
    /\ UNCHANGED <<cvars, svars, avars>>

\* program_dmd_seq up to its stop (lines 1214-1222)
CallProgram ==
    /\ pc = "idle" /\ result = "none"
    /\ \E a \in ProgramCalls : call' = a
    /\ Send(start_stop_sequence("stop"))
    /\ pc' = "p_trig1"
    /\ result' = "running"
    /\ UNCHANGED <<dual_controller, on_the_fly_patterns, ii, todo, after, faults>>
    /\ UNCHANGED <<cvars, svars, avars>>

\* delay1_us, mode_trig1 = self.get_trigger_in1()
P_Trig1 ==
    /\ pc = "p_trig1"
    /\ Exchange(get_trigger_in1, "p_trig2", "ignore", "raise")
    /\ UNCHANGED <<dual_controller, on_the_fly_patterns, call, ii, todo>>
    /\ UNCHANGED <<cvars, svars, avars>>

\* mode_trig2 = self.get_trigger_in2(); set_pattern_sequence is entered next
P_Trig2 ==
    /\ pc = "p_trig2"
    /\ Exchange(get_trigger_in2, "s_stop1", "ignore", "raise")
    /\ UNCHANGED <<dual_controller, on_the_fly_patterns, call, ii, todo>>
    /\ UNCHANGED <<cvars, svars, avars>>

Next ==
    \/ CallUpload \/ U_Stop1 \/ U_Mode \/ U_Stop2 \/ U_Lut \/ U_Cfg1 \/ U_Combine
    \/ U_Compress \/ U_Init \/ U_Data \/ U_Cfg2 \/ U_Start \/ U_TrigStop
    \/ CallSet \/ S_Stop1 \/ S_Mode \/ S_Stop2 \/ S_Lut \/ S_Cfg \/ S_Start \/ S_TrigStop
    \/ CallProgram \/ P_Trig1 \/ P_Trig2
    \/ ReadErrorDescription

Spec == Init /\ [][Next]_vars

----------------------------------------------------------------------------
(* Claims about the command sequences *)

IsStop(c) == c.cmd = PAT_START_STOP /\ c.data = <<0>>
IsStart(c) == c.cmd = PAT_START_STOP /\ c.data = <<2>>
IsLut(c) == c.cmd \in {MBOX_DATA, PAT_CONFIG}
IsInit(c) == c.cmd \in {PATMEM_LOAD_INIT_MASTER, PATMEM_LOAD_INIT_SECONDARY}
IsData(c) == c.cmd \in {PATMEM_LOAD_DATA_MASTER, PATMEM_LOAD_DATA_SECONDARY}

\* the method has returned or raised
Ended == pc = "idle" /\ result # "none"
Returned == pc = "idle" /\ result = "returned"

\* what a command is, with the number it carries: the display mode, the
\* sequence position, num_patterns, the pattern index
Tag(c) ==
    IF IsStart(c) THEN [k |-> "start", v |-> 0]
    ELSE IF IsStop(c) THEN [k |-> "stop", v |-> 0]
    ELSE IF c.cmd = DISP_MODE THEN [k |-> "mode", v |-> c.data[1]]
    ELSE IF c.cmd = MBOX_DATA THEN [k |-> "lut", v |-> c.data[1] + 256 * c.data[2]]
    ELSE IF c.cmd = PAT_CONFIG THEN [k |-> "cfg", v |-> c.data[1] + 256 * c.data[2]]
    ELSE IF IsInit(c) THEN [k |-> "init", v |-> c.data[1] + 256 * c.data[2]]
    ELSE IF IsData(c) THEN [k |-> "data", v |-> 0]
    ELSE [k |-> "other", v |-> c.cmd]

Tags == [k \in 1..Len(cmds) |-> Tag(cmds[k])]

\* stop, display mode on-the-fly, stop, the n LUT definitions 0..n-1, the LUT
\* configuration with n
UploadHead(n) ==
    <<[k |-> "stop", v |-> 0], [k |-> "mode", v |-> 3], [k |-> "stop", v |-> 0]>>
    \o [j \in 1..n |-> [k |-> "lut", v |-> j - 1]]
    \o <<[k |-> "cfg", v |-> n]>>

\* count groups, each one init followed by its data commands
IsGroups(tags, count) ==
    /\ \A j \in 1..Len(tags) : tags[j].k \in {"init", "data"}
    /\ Cardinality({j \in 1..Len(tags) : tags[j].k = "init"}) = count
    /\ Len(tags) > 0 => tags[1].k = "init"
    /\ \A j \in 1..Len(tags) : tags[j].k = "init" => j < Len(tags) /\ tags[j + 1].k = "data"

\* the commands written are stop, mode, stop, n LUT definitions, the LUT
\* configuration, ceil(n / 24) groups, the LUT configuration and then ending
UploadShape(n, ending) ==
    /\ Len(cmds) >= n + 4 + Len(ending)
    /\ SubSeq(Tags, 1, n + 4) = UploadHead(n)
    /\ IsGroups(SubSeq(Tags, n + 5, Len(cmds) - Len(ending)), CeilDiv(n, PerFrame))
    /\ SubSeq(Tags, Len(cmds) - Len(ending) + 1, Len(cmds)) = ending

\* an upload of n binary uint8 patterns, 1 <= n <= 511, on a single-controller
\* device with ERLE compression, exposure and dark time a scalar or n long, all
\* replies received and none with the error flag
C1_Case ==
    /\ call.op = "upload" /\ ~dual_controller
    /\ call.dtype = "uint8" /\ call.compression = "erle" /\ call.bit_depth = 1
    /\ call.pat.n \in 1..max_lut_index
    /\ Len(call.exp) \in {1, call.pat.n} /\ Len(call.dark) \in {1, call.pat.n}
    /\ \A k \in 1..Len(cmds) : cmds[k].resp \in {"none", "ok"}
    /\ IsBinary(Patterns(call.pat))

\* C1 as stated: such an upload writes exactly stop, display mode on-the-fly,
\* stop, the N LUT definitions for positions 0..N-1, the LUT configuration with
\* N, ceil(N/24) groups of one BMP-load init and its data commands, the LUT
\* configuration with N again, then start, and nothing else.
C1_UploadCommandsAsStated ==
    (Ended /\ C1_Case) =>
        /\ result = "returned"
        /\ UploadShape(call.pat.n, <<[k |-> "cfg", v |-> call.pat.n], [k |-> "start", v |-> 0]>>)

\* C1 amended: the sequence is as stated when triggered is false; when
\* triggered is true one stop follows the start.
C1_UploadCommands ==
    (Ended /\ C1_Case) =>
        /\ result = "returned"
        /\ UploadShape(call.pat.n,
                       <<[k |-> "cfg", v |-> call.pat.n], [k |-> "start", v |-> 0]>>
                       \o IF call.triggered THEN <<[k |-> "stop", v |-> 0]>> ELSE <<>>)

C1_Witness ==
    /\ Ended /\ C1_Case /\ call.triggered
    /\ call.pat.n > PerFrame
    /\ \E j \in 1..Len(cmds) : IsData(cmds[j])

\* the pattern indices of the BMP-load inits written, in order
InitIndices == SelectSeq(Tags, LAMBDA t : t.k = "init")

\* inits written per combined frame
PerFrameInits == IF dual_controller THEN 2 ELSE 1

\* C2: in an on-the-fly upload of N patterns the first BMP-load init carries
\* pattern index ceil(N/24) - 1, each later frame's an index one lower, and
\* when the upload has returned the last frame uploaded is frame 0.
C2_ReverseUploadOrder ==
    call.op = "upload" =>
        /\ \A j \in 1..Len(InitIndices) :
              InitIndices[j].v = CeilDiv(call.pat.n, PerFrame) - 1 - (j - 1) \div PerFrameInits
        /\ Returned => Len(InitIndices) = PerFrameInits * CeilDiv(call.pat.n, PerFrame)

C2_Witness ==
    /\ call.op = "upload" /\ Returned
    /\ Len(InitIndices) >= 2 /\ InitIndices[1].v = 1 /\ InitIndices[Len(InitIndices)].v = 0

\* the commands written other than the reads of the error description
Loads == SelectSeq(cmds, LAMBDA c : c.cmd # Read_Error_Description)

\* the positions in a command list of the BMP-load inits
InitAt(loads) == SelectSeq([j \in 1..Len(loads) |-> j], LAMBDA j : IsInit(loads[j]))

\* the last data command of the group whose init is at position i
GroupEnd(loads, i) ==
    CHOOSE e \in i..Len(loads) :
        /\ \A j \in i + 1..e : IsData(loads[j])
        /\ e = Len(loads) \/ ~IsData(loads[e + 1])

\* the bytes loaded by the group whose init is at position i: every data
\* command's bytes after its two length bytes
GroupBytes(loads, i) ==
    LET e == GroupEnd(loads, i)
    IN  Flatten([j \in 1..e - i |-> SubSeq(loads[i + j].data, 3, Len(loads[i + j].data))],
                1, e - i)

\* columns 1..w/2 or w/2+1..w of a 3 x h x w frame of even width
ColumnHalf(frame, left) ==
    LET h == NRows(frame)
        half == NCols(frame) \div 2
    IN  [pl \in 1..3 |-> [r \in 1..h |-> [c \in 1..half |->
            frame[pl][r][c + IF left THEN 0 ELSE half]]]]

\* the compressed image carried by the group whose init is at position i:
\* what follows the 48-byte header
GroupImage(loads, i) ==
    LET bytes == GroupBytes(loads, i)
    IN  SubSeq(bytes, 49, Len(bytes))

\* C3: on a dual-controller device every combined frame's init/data group is
\* written twice with the same pattern index, first with the primary
\* controller's opcodes and the left column half, then with the secondary's
\* and the right half; a data command has the opcode of the controller of the
\* init before it.
C3_DualControllerGroups ==
    (call.op = "upload" /\ dual_controller) =>
        LET loads == Loads
            at == InitAt(loads)
        IN  /\ \A j \in 1..Len(loads) : IsData(loads[j]) =>
                  LET before == {i \in 1..j - 1 : IsInit(loads[i])}
                      init == CHOOSE i \in before : \A x \in before : x <= i
                  IN  /\ before # {}
                      /\ loads[j].cmd = IF loads[init].cmd = PATMEM_LOAD_INIT_MASTER
                                        THEN PATMEM_LOAD_DATA_MASTER
                                        ELSE PATMEM_LOAD_DATA_SECONDARY
            /\ \A m \in 1..Len(at) :
                  IF m % 2 = 1
                  THEN loads[at[m]].cmd = PATMEM_LOAD_INIT_MASTER
                  ELSE /\ loads[at[m]].cmd = PATMEM_LOAD_INIT_SECONDARY
                       /\ Tag(loads[at[m]]).v = Tag(loads[at[m - 1]]).v
                       /\ GroupEnd(loads, at[m - 1]) = at[m] - 1
            /\ Returned =>
                  /\ Len(at) = 2 * CeilDiv(call.pat.n, PerFrame)
                  /\ \A m \in 1..Len(at) :
                        /\ GroupEnd(loads, at[m]) > at[m]
                        /\ Ok(GroupImage(loads, at[m])) =
                              encode_erle(ColumnHalf(
                                  combined_frame(Patterns(call.pat), Tag(loads[at[m]]).v),
                                  m % 2 = 1))

C3_Witness ==
    /\ call.op = "upload" /\ dual_controller /\ Returned
    /\ Len(InitAt(Loads)) = 4
    /\ GroupBytes(Loads, InitAt(Loads)[1]) # GroupBytes(Loads, InitAt(Loads)[2])

\* C4: in upload_pattern_sequence, set_pattern_sequence and program_dmd_seq,
\* before every LUT definition and LUT configuration written a stop has been
\* written, with no start between that stop and the LUT command. Stated of the
\* command just written: the last start or stop before it is a stop.
C4_StopBeforeLut ==
    (Len(cmds) > 0 /\ IsLut(cmds[Len(cmds)])) =>
        LET ss == {j \in 1..Len(cmds) - 1 : IsStart(cmds[j]) \/ IsStop(cmds[j])}
        IN  /\ ss # {}
            /\ IsStop(cmds[CHOOSE j \in ss : \A x \in ss : x <= j])

C4_Witness ==
    /\ call.op = "program" /\ Returned
    /\ \E j \in 1..Len(cmds) : cmds[j].cmd = MBOX_DATA
    /\ \E j \in 1..Len(cmds) : cmds[j].cmd = PAT_CONFIG

\* C5: when an on-the-fly or pre-stored sequence setup has returned, the last
\* command written is start if triggered is false, and the last two are start
\* then stop if triggered is true.
C5_EndsWithStart ==
    Returned =>
        IF call.triggered
        THEN /\ Len(cmds) >= 2
             /\ IsStart(cmds[Len(cmds) - 1])
             /\ IsStop(cmds[Len(cmds)])
        ELSE /\ Len(cmds) >= 1
             /\ IsStart(cmds[Len(cmds)])

C5_Witness ==
    /\ Returned /\ call.triggered /\ call.op = "upload"
    /\ IsStop(cmds[Len(cmds)])

\* an input upload_pattern_sequence should reject
InvalidUpload ==
    \/ call.dtype # "uint8"
    \/ call.compression # "erle"
    \/ call.pat.n > max_lut_index
    \/ ~IsBinary(Patterns(call.pat))

\* C6: an upload whose input is invalid (not uint8, a value outside {0, 1},
\* a compression mode unknown or not implemented, more than 511 patterns)
\* fails before any command has been written.
C6_ValidationFirst ==
    (Ended /\ call.op = "upload" /\ InvalidUpload) =>
        /\ result # "returned"
        /\ cmds = <<>>

\* C7: once a reply to a command of an upload carries the error flag, no LUT
\* command, BMP-load command or start is written any more, and the upload
\* does not return normally.
C7_ErrorFlagAborts ==
    call.op = "upload" =>
        \A k \in 1..Len(cmds) :
            (cmds[k].resp = "err" /\ cmds[k].cmd # Read_Error_Description) =>
                /\ \A m \in k + 1..Len(cmds) :
                      ~(IsLut(cmds[m]) \/ IsInit(cmds[m]) \/ IsData(cmds[m]) \/ IsStart(cmds[m]))
                /\ ~Returned

----------------------------------------------------------------------------
(* Claims about the LUT entries and the pre-stored flow *)

\* the LUT definitions written, in order
LutDefs == SelectSeq(cmds, LAMBDA c : c.cmd = MBOX_DATA)

\* the arguments the j-th LUT definition of the running method is made from
LutEntry(j) ==
    [pos |-> j - 1, exp |-> exp_times[j], dark |-> dark_times[j],
     wait |-> call.triggered, clear |-> call.clear,
     pic |-> index_2pic(IF call.op = "upload" THEN j - 1 ELSE call.inds[j]),
     bit |-> index_2bit(IF call.op = "upload" THEN j - 1 ELSE call.inds[j])]

\* bits lo..hi of a byte, as a number
Bits(byte, lo, hi) == (byte \div 2^lo) % 2^(hi - lo + 1)
Flag(b) == IF b THEN 1 ELSE 0

\* the payload but for its misc byte: position, 3-byte exposure, 3-byte dark
\* time with the high byte 0, trigger-2 byte, image index, 8 * bit index
LutLayout(d, e) ==
    /\ Len(d) = 12
    /\ d[1] + 256 * d[2] = e.pos
    /\ d[3] + 256 * d[4] + 65536 * d[5] = e.exp
    /\ d[7] + 256 * d[8] = e.dark
    /\ d[9] = 0 /\ d[10] = 0
    /\ d[11] = e.pic /\ d[12] = 8 * e.bit
    /\ \A k \in 1..12 : d[k] \in 0..255

ExampleEntry == [pos |-> 0, exp |-> 105, dark |-> 0, wait |-> TRUE, clear |-> FALSE, pic |-> 0, bit |-> 0]

\* C13 as the spec states it: the payload of every LUT definition is laid out
\* as above, its misc byte has bit 0 = wait-for-trigger, bits 1..3 = 0b100,
\* bits 4..6 = 0 and bit 7 = clear-after-trigger, and the example entry
\* serializes to [0,0, 0x69,0,0, 0x09, 0,0,0, 0, 0, 0].
C13_LutPayloadAsStated ==
    \A j \in 1..Len(LutDefs) :
        LET d == LutDefs[j].data
            e == LutEntry(j)
        IN  /\ LutLayout(d, e)
            /\ Bits(d[6], 0, 0) = Flag(e.wait) /\ Bits(d[6], 1, 3) = 4
            /\ Bits(d[6], 4, 6) = 0 /\ Bits(d[6], 7, 7) = Flag(e.clear)
            /\ e = ExampleEntry => d = <<0, 0, 105, 0, 0, 9, 0, 0, 0, 0, 0, 0>>

\* C13: the payload of every LUT definition is laid out as above, its misc
\* byte has bit 0 = clear-after-trigger, bits 1..3 = 0, bits 4..6 = 0b001 and
\* bit 7 = wait-for-trigger, and the example entry serializes to
\* [0,0, 0x69,0,0, 0x90, 0,0,0, 0, 0, 0].
C13_LutPayload ==
    \A j \in 1..Len(LutDefs) :
        LET d == LutDefs[j].data
            e == LutEntry(j)
        IN  /\ LutLayout(d, e)
            /\ Bits(d[6], 0, 0) = Flag(e.clear) /\ Bits(d[6], 1, 3) = 0
            /\ Bits(d[6], 4, 6) = 1 /\ Bits(d[6], 7, 7) = Flag(e.wait)
            /\ e = ExampleEntry => d = <<0, 0, 105, 0, 0, 144, 0, 0, 0, 0, 0, 0>>

C13_Witness ==
    /\ Len(LutDefs) > PerFrame
    /\ LutEntry(1) = ExampleEntry
    /\ LutDefs[1].data = <<0, 0, 105, 0, 0, 144, 0, 0, 0, 0, 0, 0>>
    /\ LutDefs[PerFrame + 1].data[11] = 1

\* a pre-stored setup over N firmware indices, 1 <= N <= 511, bit depth 1,
\* exposure and dark time a scalar or N long, all replies received and none
\* with the error flag
C14_Case ==
    /\ call.op = "set" /\ call.mode = "pre-stored" /\ call.bit_depth = 1
    /\ Len(call.inds) \in 1..max_lut_index
    /\ Len(call.exp) \in {1, Len(call.inds)} /\ Len(call.dark) \in {1, Len(call.inds)}
    /\ \A k \in 1..Len(cmds) : cmds[k].resp \in {"none", "ok"}

\* stop, display mode pre-stored, stop, the n LUT definitions 0..n-1, the LUT
\* configuration with n
SetHead(n) ==
    <<[k |-> "stop", v |-> 0], [k |-> "mode", v |-> pattern_modes["pre-stored"]],
      [k |-> "stop", v |-> 0]>>
    \o [j \in 1..n |-> [k |-> "lut", v |-> j - 1]]
    \o <<[k |-> "cfg", v |-> n]>>

\* LUT definition i carries image index index_i div 24 and bit index index_i mod 24
SetPicBits ==
    /\ Len(LutDefs) = Len(call.inds)
    /\ \A j \in 1..Len(LutDefs) :
          /\ LutDefs[j].data[11] = call.inds[j] \div 24
          /\ LutDefs[j].data[12] = 8 * (call.inds[j] % 24)

\* C14 as the spec states it: such a setup writes exactly stop, set display
\* mode, stop, N LUT definitions (definition i with position i, image index
\* index_i div 24, bit index index_i mod 24), one LUT configuration with N,
\* then start, and no BMP-load command.
C14_SetCommandsAsStated ==
    (Ended /\ C14_Case) =>
        /\ result = "returned"
        /\ Tags = SetHead(Len(call.inds)) \o <<[k |-> "start", v |-> 0]>>
        /\ SetPicBits

\* C14 amended: the sequence is as stated when triggered is false; when
\* triggered is true one stop follows the start.
C14_SetCommands ==
    (Ended /\ C14_Case) =>
        /\ result = "returned"
        /\ Tags = SetHead(Len(call.inds)) \o <<[k |-> "start", v |-> 0]>>
                  \o IF call.triggered THEN <<[k |-> "stop", v |-> 0]>> ELSE <<>>
        /\ SetPicBits

C14_Witness ==
    /\ Ended /\ C14_Case /\ call.triggered
    /\ call.inds = <<24, 47, 3>>
    /\ Len(cmds) = 9

\* the bit indices derived from the requested firmware indices
BitIndices == {index_2bit(call.inds[k]) : k \in 1..Len(call.inds)}

\* C15: in the pre-stored flow (set_pattern_sequence with mode 'pre-stored', or
\* program_dmd_seq), when the bit indices derived from the requested indices
\* contain a nonzero value and no 0, the call does not return as if nothing
\* were amiss: a warning or an error reaches the caller.
C15_MissingBitZeroWarned ==
    (/\ Ended /\ call.op \in {"set", "program"} /\ call.mode = "pre-stored"
     /\ 0 \notin BitIndices /\ \E b \in BitIndices : b # 0)
        => result # "returned"

\* C16: no LUT definition carrying an exposure below 105 microseconds is
\* written, whether by upload_pattern_sequence or by set_pattern_sequence.
C16_ShortExposureRejected ==
    \A j \in 1..Len(LutDefs) :
        LutDefs[j].data[3] + 256 * LutDefs[j].data[4] + 65536 * LutDefs[j].data[5] >= min_time_us

----------------------------------------------------------------------------
(* dlp_driver.py: send_command, send_raw_command, _send_raw_packet,
   decode_response, each call followed from its arguments to what it returns *)

packet_length_bytes == 64
MaxTimeouts == 1
MaxReplyLen == 6

\* a sender with the reply bit above the read bit
flag_byte_swapped(rw_mode, rep) == (IF rw_mode = "r" THEN 64 ELSE 0) + (IF rep THEN 128 ELSE 0)

\* int(flagstring, 2): read/write in bit 7, reply in bit 6, the rest 0
flag_byte(rw_mode, rep) == (IF rw_mode = "r" THEN 128 ELSE 0) + (IF rep THEN 64 ELSE 0)

\* header + list(data)
command_buffer(rw_mode, rep, command, data, sequence_byte) ==
    <<flag_byte(rw_mode, rep), sequence_byte>> \o U16(Len(data) + 2) \o U16(command) \o data

\* a sender that steps over room for a header in every packet
header_room_next(counter) == counter + packet_length_bytes + 6

data_counter_next(counter) == counter + packet_length_bytes

\* a sender that pads the last packet with 0xFF
data_to_send_ff(buf, counter) ==
    [k \in 1..packet_length_bytes |-> IF counter + k <= Len(buf) THEN buf[counter + k] ELSE 255]

\* buffer[data_counter:data_counter_next], zero-padded to the packet length
data_to_send(buf, counter) ==
    [k \in 1..packet_length_bytes |-> IF counter + k <= Len(buf) THEN buf[counter + k] ELSE 0]

\* bytes([0x00] + buffer): the report id, then the packet
report(buf) == <<0>> \o buf

\* 2 ** ii & flag_byte != 0
BitSet(byte, bit) == (byte \div 2^bit) % 2 = 1

decode_response(buf) ==
    IF buf = <<>> THEN Raise("ValueError")
    ELSE IF Len(buf) < 4 THEN Raise("IndexError")
    ELSE LET data_len == buf[3] + 256 * buf[4]
             last == Min(4 + data_len, Len(buf))
         IN  Ok([error |-> BitSet(buf[1], 5),
                 host_requests_reply |-> BitSet(buf[1], 6),
                 read_transaction |-> BitSet(buf[1], 7),
                 sequence_byte |-> buf[2],
                 data |-> [k \in 1..(last - 4) |-> buf[4 + k]]])

\* payloads of the lengths around the packet boundaries, no byte of them 0
PayloadLens == (0..2) \cup (57..60) \cup (121..124) \cup (max_cmd_payload - 1..max_cmd_payload + 2)
Payload(n) == [k \in 1..n |-> (k % 251) + 1]
CommandInputs ==
    {[t |-> "command", rw |-> rw, rep |-> rep, cmd |-> cmd, data |-> Payload(n), seq |-> seq] :
        rw \in {"r", "w", "x"}, rep \in BOOLEAN, cmd \in {MBOX_DATA, PATMEM_LOAD_DATA_MASTER},
        n \in PayloadLens, seq \in {0, 5}}

\* reply buffers handed to decode_response: every byte list up to MaxReplyLen
\* over bytes with and without the error bit
ReplyBytes == {0, 2, 32, 255}
BufferInputs == {[t |-> "buffer", buf |-> b] : b \in UNION {[1..m -> ReplyBytes] : m \in 0..MaxReplyLen}}

\* what self._dmd.read returns: a report from the device, or nothing when the
\* timeout passes
Report == [k \in 1..packet_length_bytes |-> IF k = 3 THEN 1 ELSE IF k = 5 THEN 7 ELSE 0]
Reads == IF timeouts < MaxTimeouts THEN {Report, <<>>} ELSE {Report}

InitSend ==
    /\ sin \in CommandInputs \cup BufferInputs
    /\ sstage = "input"
    /\ buffer = <<>>
    /\ data_counter = 0
    /\ packets = <<>>
    /\ reply = <<>>
    /\ response = NoResult
    /\ dmd = "open"
    /\ timeouts = 0
    /\ tpc = <<>>
    /\ tlocal = <<>>
    /\ lock = "none"
    /\ sock = [cur |-> 0]
    /\ wire = <<>>
    /\ gui = [dlp |-> "None"]
    /\ ops = 0
    /\ cin = [t |-> "none"]
    /\ cstage = "unused"
    /\ cenc = NoResult
    /\ cdec = NoResult
    /\ dual_controller = FALSE
    /\ on_the_fly_patterns = NoPatterns
    /\ pc = "idle"
    /\ call = [op |-> "none"]
    /\ ii = 0
    /\ todo = <<>>
    /\ cmds = <<>>
    /\ after = "none"
    /\ result = "none"
    /\ faults = 0

\* send_command up to its call of send_raw_command
SendCommand ==
    /\ sstage = "input" /\ sin.t = "command"
    /\ IF sin.rw \notin {"r", "w"}
       THEN /\ response' = Raise("ValueError")
            /\ sstage' = "raised"
            /\ UNCHANGED buffer
       ELSE /\ buffer' = command_buffer(sin.rw, sin.rep, sin.cmd, sin.data, sin.seq)
            /\ sstage' = "sending"
            /\ UNCHANGED response
    /\ UNCHANGED <<sin, data_counter, packets, reply, dmd, timeouts>>
    /\ UNCHANGED <<cvars, dvars, avars>>

\* one turn of send_raw_command's loop with its call of _send_raw_packet, which
\* appends its HID write to packets; after the last turn send_raw_command and send_command return the reply
SendRawPacket ==
    /\ sstage = "sending" /\ data_counter < Len(buffer)
    /\ packets' = Append(packets, report(data_to_send(buffer, data_counter)))
    /\ \E data \in IF sin.rep THEN Reads ELSE {<<>>} :
          /\ reply' = reply \o data
          /\ timeouts' = IF sin.rep /\ data = <<>> THEN timeouts + 1 ELSE timeouts
    /\ data_counter' = data_counter_next(data_counter)
    /\ IF data_counter' < Len(buffer)
       THEN UNCHANGED <<sstage, response>>
       ELSE sstage' = "returned" /\ response' = Ok(reply')
    /\ UNCHANGED <<sin, buffer, dmd>>
    /\ UNCHANGED <<cvars, dvars, avars>>

\* decode_response on a reply buffer: the one send_command returned, or a given one
DecodeResponse ==
    /\ \/ sstage = "input" /\ sin.t = "buffer"
       \/ sstage = "returned" /\ sin.rep
    /\ response' = decode_response(IF sin.t = "buffer" THEN sin.buf ELSE reply)
    /\ sstage' = "decoded"
    /\ UNCHANGED <<sin, buffer, data_counter, packets, reply, dmd, timeouts>>
    /\ UNCHANGED <<cvars, dvars, avars>>

NextSend == SendCommand \/ SendRawPacket \/ DecodeResponse

SpecSend == InitSend /\ [][NextSend]_vars

\* C12 as the spec states it: a command sent through send_command goes out in
\* exactly 1 packet when its payload is at most 504 bytes and in
\* ceil((payload + 6) / 64) packets when it is longer.
C12_PacketCountAsStated ==
    (sin.t = "command" /\ sstage = "returned") =>
        Len(packets) = IF Len(sin.data) <= max_cmd_payload THEN 1
                       ELSE CeilDiv(Len(sin.data) + 6, packet_length_bytes)

\* C12: a command sent through send_command goes out in exactly
\* ceil((payload + 6) / 64) packets whatever its payload length, which is 1
\* packet exactly when the payload is at most 58 bytes.
C12_PacketCount ==
    (sin.t = "command" /\ sstage = "returned") =>
        /\ Len(packets) = CeilDiv(Len(sin.data) + 6, packet_length_bytes)
        /\ (Len(packets) = 1) <=> (Len(sin.data) <= 58)

C12_Witness ==
    /\ sin.t = "command" /\ sstage = "returned"
    /\ Len(sin.data) = max_cmd_payload /\ Len(packets) = 8

\* the buffer decode_response was given
Decoded == IF sin.t = "buffer" THEN sin.buf ELSE reply

\* C18: decode_response reports an error and returns no payload for every
\* reply that is empty, shorter than the 4-byte header, whose length field
\* exceeds the bytes received after the header, or whose flag byte has the
\* error bit (bit 5) set.
C18_BadReplyRejected ==
    (sstage = "decoded" /\ (\/ Decoded = <<>>
                            \/ Len(Decoded) < 4
                            \/ Decoded[3] + 256 * Decoded[4] > Len(Decoded) - 4
                            \/ BitSet(Decoded[1], 5)))
        => response.err # "none"

\* C19: when a reply is requested and a HID read returns nothing within the
\* timeout, send_command reports an error to its caller instead of returning
\* normally, and the HID handle stays open.
C19_TimeoutReported ==
    (sin.t = "command" /\ sin.rep /\ timeouts > 0 /\ sstage = "returned")
        => (response.err # "none" /\ dmd = "open")

----------------------------------------------------------------------------
(* dlp_driver.py: get_dmd_sequence, from its arguments to what it returns *)

MaxRepeats == 2
MaxOff == 1

\* self.presets: per channel, the firmware indices of each mode
presets ==
    [blue |-> [off |-> <<1>>, default |-> <<0>>, sim |-> <<10, 11, 12>>],
     red |-> [off |-> <<3>>, default |-> <<2>>, sim |-> <<20, 21>>]]

\* np.arange(npatterns)
arange(n) == [k \in 1..n |-> k - 1]

\* fi[ind]
Take(fi, ind) == [k \in 1..Len(ind) |-> fi[ind[k] + 1]]

\* np.hstack([fi] * nreps) for nreps >= 1
RECURSIVE Repeated(_, _)
Repeated(fi, nreps) == IF nreps <= 1 THEN fi ELSE fi \o Repeated(fi, nreps - 1)

\* np.concatenate((ioff_before, f_inds[ii], ioff_after)) when either count is not 0
padded(f, ioff, noff_before, noff_after) ==
    IF noff_before # 0 \/ noff_after # 0
    THEN [k \in 1..noff_before |-> ioff] \o f \o [k \in 1..noff_after |-> ioff]
    ELSE f

\* ioff_new[::2] = f_inds[ii]; ioff_new[1::2] = ioff
blanked(f, ioff) == [k \in 1..2 * Len(f) |-> IF k % 2 = 1 THEN f[(k + 1) \div 2] ELSE ioff]

\* f_inds[ii] after the three loops, for an entry whose repeat count is not 0
entry_inds(e) ==
    LET fi == presets[e.channel][e.mode]
        ind == IF e.sel.none THEN arange(Len(fi)) ELSE e.sel.ind
        ioff == presets[e.channel]["off"][1]
        f == padded(Repeated(Take(fi, ind), e.nrepeats), ioff, e.noff_before, e.noff_after)
    IN  IF e.blank THEN blanked(f, ioff) ELSE f

\* np.hstack of the list v[lo..hi]
RECURSIVE hstack(_, _, _)
hstack(v, lo, hi) == IF lo > hi THEN <<>> ELSE v[lo] \o hstack(v, lo + 1, hi)

\* req is zip(channels, modes, mode_pattern_indices, nrepeats, noff_before,
\* noff_after, blank) of the lists after their checks; np.hstack raises
\* ValueError on an empty list, which [fi] * 0 is, and f_inds of no entries
get_dmd_sequence(req) ==
    IF \E k \in 1..Len(req) : req[k].nrepeats = 0 THEN Raise("ValueError")
    ELSE IF Len(req) = 0 THEN Raise("ValueError")
    ELSE Ok(hstack([k \in 1..Len(req) |-> entry_inds(req[k])], 1, Len(req)))

\* the entries a request is made of
Entries ==
    [channel : {"blue", "red"}, mode : {"sim"}, nrepeats : 0..MaxRepeats,
     noff_before : 0..MaxOff, noff_after : 0..MaxOff, blank : BOOLEAN,
     sel : {[none |-> TRUE, ind |-> <<>>], [none |-> FALSE, ind |-> <<1, 0>>]}]
    \cup [channel : {"blue"}, mode : {"default"}, nrepeats : {1}, noff_before : {0, MaxOff},
          noff_after : {0}, blank : BOOLEAN, sel : {[none |-> TRUE, ind |-> <<>>]}]

EntryCounts == {1, 2}
SequenceInputs == {[t |-> "sequence", req |-> r] : r \in UNION {[1..n -> Entries] : n \in EntryCounts}}

InitPreset ==
    /\ sin \in SequenceInputs
    /\ sstage = "input"
    /\ buffer = <<>>
    /\ data_counter = 0
    /\ packets = <<>>
    /\ reply = <<>>
    /\ response = NoResult
    /\ dmd = "open"
    /\ timeouts = 0
    /\ tpc = <<>>
    /\ tlocal = <<>>
    /\ lock = "none"
    /\ sock = [cur |-> 0]
    /\ wire = <<>>
    /\ gui = [dlp |-> "None"]
    /\ ops = 0
    /\ cin = [t |-> "none"]
    /\ cstage = "unused"
    /\ cenc = NoResult
    /\ cdec = NoResult
    /\ dual_controller = FALSE
    /\ on_the_fly_patterns = NoPatterns
    /\ pc = "idle"
    /\ call = [op |-> "none"]
    /\ ii = 0
    /\ todo = <<>>
    /\ cmds = <<>>
    /\ after = "none"
    /\ result = "none"
    /\ faults = 0

GetDmdSequence ==
    /\ sstage = "input" /\ sin.t = "sequence"
    /\ response' = get_dmd_sequence(sin.req)
    /\ sstage' = "resolved"
    /\ UNCHANGED <<sin, buffer, data_counter, packets, reply, dmd, timeouts>>
    /\ UNCHANGED <<cvars, dvars, avars>>

NextPreset == GetDmdSequence

SpecPreset == InitPreset /\ [][NextPreset]_vars

\* what the spec has entry e contribute: noff_before 'off' indices, the
\* (sub-selected) index vector nrepeats times over, noff_after 'off' indices
SubSelected(e) ==
    IF e.sel.none THEN presets[e.channel][e.mode]
    ELSE [k \in 1..Len(e.sel.ind) |-> presets[e.channel][e.mode][e.sel.ind[k] + 1]]
PlainLen(e) == e.noff_before + e.nrepeats * Len(SubSelected(e)) + e.noff_after
PlainAt(e, j) ==
    IF j <= e.noff_before \/ j > e.noff_before + e.nrepeats * Len(SubSelected(e))
    THEN presets[e.channel]["off"][1]
    ELSE SubSelected(e)[((j - e.noff_before - 1) % Len(SubSelected(e))) + 1]
StatedLen(e) == IF e.blank THEN 2 * PlainLen(e) ELSE PlainLen(e)
StatedAt(e, j) ==
    IF ~e.blank THEN PlainAt(e, j)
    ELSE IF j % 2 = 1 THEN PlainAt(e, (j + 1) \div 2) ELSE presets[e.channel]["off"][1]

\* elements contributed by the entries before entry k
RECURSIVE StatedBefore(_, _)
StatedBefore(req, k) == IF k <= 1 THEN 0 ELSE StatedBefore(req, k - 1) + StatedLen(req[k - 1])

\* the value is the concatenation, in entry order, of what the entries contribute
IsStated(val, req) ==
    /\ Len(val) = StatedBefore(req, Len(req) + 1)
    /\ \A k \in 1..Len(req) : \A j \in 1..StatedLen(req[k]) :
          val[StatedBefore(req, k) + j] = StatedAt(req[k], j)

\* C20: for every request get_dmd_sequence returns the concatenation, in entry
\* order, of the per-entry vectors: b_k 'off' indices, the (sub-selected) index
\* vector of (channel, mode) r_k times over, a_k 'off' indices, every element
\* followed by 'off' when blank; entry k contributes b_k + r_k * len(fi_k) + a_k
\* elements, doubled when blank.
C20_SequenceResolved ==
    (sin.t = "sequence" /\ sstage = "resolved") =>
        /\ response.err = "none"
        /\ IsStated(response.val, sin.req)

\* what does hold: a request of at least one entry, every repeat count at
\* least 1, is resolved as stated
SequenceResolvedWhenRepeated ==
    (/\ sin.t = "sequence" /\ sstage = "resolved" /\ Len(sin.req) >= 1
     /\ \A k \in 1..Len(sin.req) : sin.req[k].nrepeats >= 1)
        => (response.err = "none" /\ IsStated(response.val, sin.req))

----------------------------------------------------------------------------
(* dlp_config.py: validate_channel_map and load_config_file on a JSON file *)

\* JSON values: a number, or a list of values
JInt(n) == [tag |-> "int", n |-> n]
JList(items) == [tag |-> "list", items |-> items]

\* the index values a stored mode may hold: flat lists, an empty list, a list
\* of lists, a bare number
IndexValues ==
    {JList(<<JInt(0)>>), JList(<<JInt(1), JInt(2)>>), JList(<<>>), JInt(7),
     JList(<<JList(<<JInt(1), JInt(2)>>), JList(<<JInt(3), JInt(4)>>)>>)}

\* np.atleast_1d(m).ndim
RECURSIVE ndim_of(_)
ndim_of(v) ==
    IF v.tag = "int" THEN 0
    ELSE IF v.items = <<>> THEN 1 ELSE 1 + ndim_of(v.items[1])
atleast_1d_ndim(v) == IF ndim_of(v) = 0 THEN 1 ELSE ndim_of(v)

\* a channel's dictionary, as its (mode, value) items in file order
ModeOrders == {<<>>, <<"default">>, <<"sim">>, <<"default", "sim">>, <<"sim", "default">>}
ChannelDicts ==
    UNION {{<<vs, ms>> : vs \in [1..Len(ms) -> IndexValues]} : ms \in ModeOrders}

ModeItems(cd) == [k \in 1..Len(cd[2]) |-> [m |-> cd[2][k], v |-> cd[1][k]]]

\* stored channel maps: none, or up to two channels
StoredMaps ==
    {[none |-> TRUE, chans |-> <<>>], [none |-> FALSE, chans |-> <<>>]}
    \cup {[none |-> FALSE, chans |-> <<[ch |-> "blue", modes |-> ModeItems(cd)]>>] :
            cd \in ChannelDicts}
    \cup {[none |-> FALSE, chans |-> <<[ch |-> "blue", modes |-> ModeItems(cd[1])],
                                       [ch |-> "red", modes |-> ModeItems(cd[2])]>>] :
            cd \in ChannelDicts \X ChannelDicts}

ConfigInputs ==
    {[t |-> "config", suffix |-> sfx, channel_map |-> cm] :
        sfx \in {".json", ".txt"}, cm \in StoredMaps}

\* validate_channel_map: values read from JSON are never ndarrays, so of the
\* two checks on a value only the isinstance one can fail
validate_channel_map(cm) ==
    \A c \in 1..Len(cm) :
        /\ \E k \in 1..Len(cm[c].modes) : cm[c].modes[k].m = "default"
        /\ \A k \in 1..Len(cm[c].modes) : cm[c].modes[k].v.tag = "list"

\* presets[mode_name] = np.atleast_1d(m)
as_arrays(cm) ==
    [c \in 1..Len(cm) |->
        [ch |-> cm[c].ch,
         modes |-> [k \in 1..Len(cm[c].modes) |->
                      [m |-> cm[c].modes[k].m, ndim |-> atleast_1d_ndim(cm[c].modes[k].v),
                       v |-> cm[c].modes[k].v]]]]

load_config_file(f) ==
    IF f.suffix # ".json" THEN Raise("ValueError")
    ELSE IF f.channel_map.none THEN Ok([none |-> TRUE, chans |-> <<>>])
    ELSE IF ~validate_channel_map(f.channel_map.chans) THEN Raise("ValueError")
    ELSE Ok([none |-> FALSE, chans |-> as_arrays(f.channel_map.chans)])

InitConfig ==
    /\ sin \in ConfigInputs
    /\ sstage = "input"
    /\ buffer = <<>>
    /\ data_counter = 0
    /\ packets = <<>>
    /\ reply = <<>>
    /\ response = NoResult
    /\ dmd = "open"
    /\ timeouts = 0
    /\ tpc = <<>>
    /\ tlocal = <<>>
    /\ lock = "none"
    /\ sock = [cur |-> 0]
    /\ wire = <<>>
    /\ gui = [dlp |-> "None"]
    /\ ops = 0
    /\ cin = [t |-> "none"]
    /\ cstage = "unused"
    /\ cenc = NoResult
    /\ cdec = NoResult
    /\ dual_controller = FALSE
    /\ on_the_fly_patterns = NoPatterns
    /\ pc = "idle"
    /\ call = [op |-> "none"]
    /\ ii = 0
    /\ todo = <<>>
    /\ cmds = <<>>
    /\ after = "none"
    /\ result = "none"
    /\ faults = 0

LoadConfigFile ==
    /\ sstage = "input" /\ sin.t = "config"
    /\ response' = load_config_file(sin)
    /\ sstage' = "loaded"
    /\ UNCHANGED <<sin, buffer, data_counter, packets, reply, dmd, timeouts>>
    /\ UNCHANGED <<cvars, dvars, avars>>

NextConfig == LoadConfigFile

SpecConfig == InitConfig /\ [][NextConfig]_vars

\* some channel of the stored map lacks "default", or some index value is not
\* a one-dimensional sequence
BadStoredMap(cm) ==
    \E c \in 1..Len(cm) :
        \/ ~\E k \in 1..Len(cm[c].modes) : cm[c].modes[k].m = "default"
        \/ \E k \in 1..Len(cm[c].modes) : ndim_of(cm[c].modes[k].v) # 1

\* C21: load_config_file fails, returning no channel map, for every stored
\* channel map in which a channel lacks the mode "default" or a mode's index
\* value is not a one-dimensional sequence; every channel map it returns has
\* "default" in every channel and only one-dimensional index values.
C21_BadChannelMapRejected ==
    (sin.t = "config" /\ sstage = "loaded") =>
        /\ (~sin.channel_map.none /\ BadStoredMap(sin.channel_map.chans)) => response.err # "none"
        /\ (response.err = "none" /\ ~response.val.none) =>
              \A c \in 1..Len(response.val.chans) :
                  /\ \E k \in 1..Len(response.val.chans[c].modes) :
                        response.val.chans[c].modes[k].m = "default"
                  /\ \A k \in 1..Len(response.val.chans[c].modes) :
                        response.val.chans[c].modes[k].ndim = 1

----------------------------------------------------------------------------
(* gui/dlp_panel.py, gui/connection_panel.py, gui/project_panel.py, gui/app.py:
   the Tk main thread, the upload thread and the threads of the project's
   start sequence on the one open DMD handle, one step per HID write.  No DCS
   controller is connected. *)

MaxClicks == 3

PacketsOf(c) == CeilDiv(Len(c.data) + 6, packet_length_bytes)

\* what the upload thread sends: upload_pattern_sequence(patterns, exp_times,
\* dark_times, triggered) for one pattern on a single-controller device
AppStack == Stack(1, 1, UploadW, "step", 0)
AppUploadCommands(exp, dark, triggered) ==
    LET enc == encode_erle(combined_frame(Patterns(AppStack), 0)).val
        data == bmp_header(FALSE, Len(enc), "erle") \o enc
    IN  <<start_stop_sequence("stop"), set_pattern_mode("on-the-fly"), start_stop_sequence("stop"),
          pattern_display_lut_definition(0, exp, dark, triggered, FALSE, 0, 0),
          pattern_display_lut_configuration(1, 0),
          init_pattern_bmp_load(Len(enc) + 48, 0, TRUE),
          pattern_bmp_data(data, TRUE),
          pattern_display_lut_configuration(1, 0),
          start_stop_sequence("start")>>
        \o IF triggered THEN <<start_stop_sequence("stop")>> ELSE <<>>

\* the opcode and packet count of each command
Writes(commands) == [k \in 1..Len(commands) |-> [cmd |-> commands[k].cmd, n |-> PacketsOf(commands[k])]]

\* DLPApp.dlp_connected
dlp_connected == gui.dlp # "None" /\ gui.initialized

\* the upload's thread is alive: writing, or waiting in self.after() to post
\* _on_upload_done
Uploading == tpc.worker \in {"running", "posting"}

\* one HID write of a thread, or its close of the handle
Written(th, cmd, pkt, npkt) ==
    [th |-> th, op |-> "write", cmd |-> cmd, pkt |-> pkt, npkt |-> npkt, uploading |-> Uploading]
Closed(th) ==
    [th |-> th, op |-> "close", cmd |-> 0, pkt |-> 1, npkt |-> 1, uploading |-> Uploading]

\* how many threads of _run_sequence stand at each of its positions
IdleRunners == [begin |-> 0, announce |-> 0, log |-> 0, write |-> 0, except |-> 0,
                except_log |-> 0, clear |-> 0, post_start |-> 0, post_stop |-> 0]

\* a call of self.after() from another thread than the main one is carried
\* out by the main loop: it waits while the main thread is inside a handler
MainLoopFree == tpc.main = "idle"

InitApp ==
    /\ tpc = [main |-> "idle", worker |-> "none"]
    /\ tlocal = [main |-> <<>>, worker |-> [todo |-> <<>>, pkt |-> 0],
                 runner |-> IdleRunners]
    /\ gui = [dlp |-> "set", initialized |-> TRUE, upload_btn |-> "normal", done |-> 0,
              running |-> FALSE, start_btn |-> "normal", stop_btn |-> "disabled", reset |-> <<>>]
    /\ dmd = "open"
    /\ wire = <<>>
    /\ ops = 0
    /\ lock = "none"
    /\ sock = [cur |-> 0]
    /\ sstage = "unused"
    /\ sin = [t |-> "none"]
    /\ buffer = <<>>
    /\ data_counter = 0
    /\ packets = <<>>
    /\ reply = <<>>
    /\ response = NoResult
    /\ timeouts = 0
    /\ cin = [t |-> "none"]
    /\ cstage = "unused"
    /\ cenc = NoResult
    /\ cdec = NoResult
    /\ dual_controller = FALSE
    /\ on_the_fly_patterns = NoPatterns
    /\ pc = "idle"
    /\ call = [op |-> "none"]
    /\ ii = 0
    /\ todo = <<>>
    /\ cmds = <<>>
    /\ after = "none"
    /\ result = "none"
    /\ faults = 0

AppFrame ==
    /\ UNCHANGED <<lock, sock, sstage, sin, buffer, data_counter, packets, reply, response, timeouts>>
    /\ UNCHANGED <<cvars, dvars>>

\* DLPPanel._upload_patterns on the main thread: the button is disabled and
\* the thread started
ClickUpload ==
    /\ tpc.main = "idle" /\ ops < MaxClicks /\ gui.upload_btn = "normal"
    /\ ops' = ops + 1
    /\ IF ~dlp_connected THEN UNCHANGED <<tpc, tlocal, gui>>
       ELSE \E triggered \in BOOLEAN :
               /\ gui' = [gui EXCEPT !.upload_btn = "disabled"]
               /\ tpc' = [tpc EXCEPT !.worker = "running"]
               /\ tlocal' = [tlocal EXCEPT !.worker =
                                [todo |-> Writes(AppUploadCommands(min_time_us, 0, triggered)), pkt |-> 0]]
    /\ UNCHANGED <<dmd, wire>>
    /\ AppFrame

\* the next HID write of the upload thread; a handle closed under it ends the
\* upload with an exception; after the last write, or the exception, the
\* thread goes on to post _on_upload_done
UploadWrite ==
    /\ tpc.worker = "running"
    /\ IF dmd # "open"
       THEN /\ tpc' = [tpc EXCEPT !.worker = "posting"]
            /\ UNCHANGED <<wire, tlocal>>
       ELSE LET w == tlocal.worker.todo[1]
                last == tlocal.worker.pkt + 1 = w.n
                finished == last /\ Len(tlocal.worker.todo) = 1
            IN  /\ wire' = Append(wire, Written("worker", w.cmd, tlocal.worker.pkt + 1, w.n))
                /\ tlocal' = [tlocal EXCEPT !.worker =
                                 IF last THEN [todo |-> Tail(tlocal.worker.todo), pkt |-> 0]
                                 ELSE [todo |-> tlocal.worker.todo, pkt |-> tlocal.worker.pkt + 1]]
                /\ tpc' = [tpc EXCEPT !.worker = IF finished THEN "posting" ELSE "running"]
    /\ UNCHANGED <<dmd, ops, gui>>
    /\ AppFrame

\* the upload thread's self.after(0, _on_upload_done), taken by the main loop;
\* the thread ends
UploadPost ==
    /\ tpc.worker = "posting"
    /\ MainLoopFree
    /\ tpc' = [tpc EXCEPT !.worker = "none"]
    /\ gui' = [gui EXCEPT !.done = @ + 1]
    /\ UNCHANGED <<tlocal, dmd, wire, ops>>
    /\ AppFrame

\* DLPPanel._on_upload_done, run from the main thread's event queue
UploadDone ==
    /\ tpc.main = "idle" /\ gui.done > 0
    /\ gui' = [gui EXCEPT !.done = @ - 1, !.upload_btn = "normal"]
    /\ UNCHANGED <<tpc, tlocal, dmd, wire, ops>>
    /\ AppFrame

\* DLPPanel._start_sequence: set_pattern_mode, then start
ClickStart ==
    /\ tpc.main = "idle" /\ ops < MaxClicks
    /\ ops' = ops + 1
    /\ IF ~dlp_connected THEN UNCHANGED <<tpc, wire>>
       ELSE /\ wire' = Append(wire, Written("main", DISP_MODE, 1, 1))
            /\ tpc' = [tpc EXCEPT !.main = "start"]
    /\ UNCHANGED <<tlocal, gui, dmd>>
    /\ AppFrame

StartWrite ==
    /\ tpc.main = "start"
    /\ wire' = Append(wire, Written("main", PAT_START_STOP, 1, 1))
    /\ tpc' = [tpc EXCEPT !.main = "idle"]
    /\ UNCHANGED <<tlocal, gui, dmd, ops>>
    /\ AppFrame

\* DLPPanel._stop_sequence
ClickStop ==
    /\ tpc.main = "idle" /\ ops < MaxClicks
    /\ ops' = ops + 1
    /\ IF ~dlp_connected THEN UNCHANGED wire
       ELSE wire' = Append(wire, Written("main", PAT_START_STOP, 1, 1))
    /\ UNCHANGED <<tpc, tlocal, gui, dmd>>
    /\ AppFrame

\* ConnectionPanel._disconnect_dlp, DLPApp.disconnect_dlp: stop, then the close
ClickDisconnect ==
    /\ tpc.main = "idle" /\ ops < MaxClicks /\ gui.dlp # "None"
    /\ ops' = ops + 1
    /\ wire' = Append(wire, Written("main", PAT_START_STOP, 1, 1))
    /\ tpc' = [tpc EXCEPT !.main = "close"]
    /\ UNCHANGED <<tlocal, gui, dmd>>
    /\ AppFrame

CloseHandle ==
    /\ tpc.main = "close"
    /\ wire' = Append(wire, Closed("main"))
    /\ dmd' = "None"
    /\ gui' = [gui EXCEPT !.dlp = "None", !.initialized = FALSE]
    /\ tpc' = [tpc EXCEPT !.main = "idle"]
    /\ UNCHANGED <<tlocal, ops>>
    /\ AppFrame

\* ProjectPanel._start_project on the main thread: the buttons are switched
\* and a thread started for _run_sequence
ClickStartProject ==
    /\ tpc.main = "idle" /\ ops < MaxClicks /\ gui.start_btn = "normal"
    /\ ops' = ops + 1
    /\ IF gui.running \/ ~dlp_connected THEN UNCHANGED <<tlocal, gui>>
       ELSE /\ gui' = [gui EXCEPT !.start_btn = "disabled", !.stop_btn = "normal"]
            /\ tlocal' = [tlocal EXCEPT !.runner.begin = @ + 1]
    /\ UNCHANGED <<tpc, dmd, wire>>
    /\ AppFrame

\* ProjectPanel._run_sequence on its thread: _running = True and the test of
\* dlp_connected; not connected, the thread only reports and ends
RunSequence ==
    /\ tlocal.runner.begin > 0
    /\ gui' = [gui EXCEPT !.running = TRUE]
    /\ tlocal' = [tlocal EXCEPT !.runner.begin = @ - 1,
                                !.runner.announce = IF dlp_connected THEN @ + 1 ELSE @]
    /\ UNCHANGED <<tpc, dmd, wire, ops>>
    /\ AppFrame

\* _run_sequence: _update_status before the start command, a self.after()
\* taken by the main loop
RunSequenceAnnounce ==
    /\ tlocal.runner.announce > 0
    /\ MainLoopFree
    /\ tlocal' = [tlocal EXCEPT !.runner.announce = @ - 1, !.runner.log = @ + 1]
    /\ UNCHANGED <<tpc, gui, dmd, wire, ops>>
    /\ AppFrame

\* _run_sequence: log before the start command, a self.after() taken by the
\* main loop
RunSequenceLog ==
    /\ tlocal.runner.log > 0
    /\ MainLoopFree
    /\ tlocal' = [tlocal EXCEPT !.runner.log = @ - 1, !.runner.write = @ + 1]
    /\ UNCHANGED <<tpc, gui, dmd, wire, ops>>
    /\ AppFrame

\* _run_sequence: self._app.dlp.start_stop_sequence('start'); with the handle
\* closed under it the thread goes to the except branch.  What follows the
\* write (log, _update_status) changes nothing here.
RunSequenceWrite ==
    /\ tlocal.runner.write > 0
    /\ IF dmd = "open"
       THEN /\ wire' = Append(wire, Written("runner", PAT_START_STOP, 1, 1))
            /\ tlocal' = [tlocal EXCEPT !.runner.write = @ - 1]
       ELSE /\ tlocal' = [tlocal EXCEPT !.runner.write = @ - 1, !.runner.except = @ + 1]
            /\ UNCHANGED wire
    /\ UNCHANGED <<tpc, gui, dmd, ops>>
    /\ AppFrame

\* _run_sequence, except branch: _update_status, a self.after() taken by the
\* main loop
RunSequenceExcept ==
    /\ tlocal.runner.except > 0
    /\ MainLoopFree
    /\ tlocal' = [tlocal EXCEPT !.runner.except = @ - 1, !.runner.except_log = @ + 1]
    /\ UNCHANGED <<tpc, gui, dmd, wire, ops>>
    /\ AppFrame

\* _run_sequence, except branch: log, a self.after() taken by the main loop
RunSequenceExceptLog ==
    /\ tlocal.runner.except_log > 0
    /\ MainLoopFree
    /\ tlocal' = [tlocal EXCEPT !.runner.except_log = @ - 1, !.runner.clear = @ + 1]
    /\ UNCHANGED <<tpc, gui, dmd, wire, ops>>
    /\ AppFrame

\* _run_sequence, except branch: self._running = False
RunSequenceClear ==
    /\ tlocal.runner.clear > 0
    /\ gui' = [gui EXCEPT !.running = FALSE]
    /\ tlocal' = [tlocal EXCEPT !.runner.clear = @ - 1, !.runner.post_start = @ + 1]
    /\ UNCHANGED <<tpc, dmd, wire, ops>>
    /\ AppFrame

\* _run_sequence, except branch: self.after(0, start_btn normal), taken by the
\* main loop
RunSequencePostStart ==
    /\ tlocal.runner.post_start > 0
    /\ MainLoopFree
    /\ gui' = [gui EXCEPT !.reset = Append(@, "start_btn")]
    /\ tlocal' = [tlocal EXCEPT !.runner.post_start = @ - 1, !.runner.post_stop = @ + 1]
    /\ UNCHANGED <<tpc, dmd, wire, ops>>
    /\ AppFrame

\* _run_sequence, except branch: self.after(0, stop_btn disabled), taken by the
\* main loop; the thread ends
RunSequencePostStop ==
    /\ tlocal.runner.post_stop > 0
    /\ MainLoopFree
    /\ gui' = [gui EXCEPT !.reset = Append(@, "stop_btn")]
    /\ tlocal' = [tlocal EXCEPT !.runner.post_stop = @ - 1]
    /\ UNCHANGED <<tpc, dmd, wire, ops>>
    /\ AppFrame

\* the oldest button reset posted by _run_sequence's except branch, run from
\* the main thread's event queue
ProjectReset ==
    /\ tpc.main = "idle" /\ gui.reset # <<>>
    /\ gui' = IF Head(gui.reset) = "start_btn"
              THEN [gui EXCEPT !.reset = Tail(@), !.start_btn = "normal"]
              ELSE [gui EXCEPT !.reset = Tail(@), !.stop_btn = "disabled"]
    /\ UNCHANGED <<tpc, tlocal, dmd, wire, ops>>
    /\ AppFrame

\* ProjectPanel._stop_project on the main thread
ClickStopProject ==
    /\ tpc.main = "idle" /\ ops < MaxClicks /\ gui.stop_btn = "normal"
    /\ ops' = ops + 1
    /\ IF ~gui.running THEN UNCHANGED <<gui, wire>>
       ELSE /\ wire' = IF dlp_connected THEN Append(wire, Written("main", PAT_START_STOP, 1, 1))
                       ELSE wire
            /\ gui' = [gui EXCEPT !.running = FALSE, !.start_btn = "normal", !.stop_btn = "disabled"]
    /\ UNCHANGED <<tpc, tlocal, dmd>>
    /\ AppFrame

NextApp ==
    \/ ClickUpload \/ UploadWrite \/ UploadPost \/ UploadDone
    \/ ClickStart \/ StartWrite \/ ClickStop
    \/ ClickDisconnect \/ CloseHandle
    \/ ClickStartProject \/ RunSequence \/ RunSequenceAnnounce \/ RunSequenceLog
    \/ RunSequenceWrite \/ RunSequenceExcept \/ RunSequenceExceptLog \/ RunSequenceClear
    \/ RunSequencePostStart \/ RunSequencePostStop
    \/ ProjectReset \/ ClickStopProject

SpecApp == InitApp /\ [][NextApp]_vars

\* C22: while a background upload is in progress no command and no close of
\* the handle is issued from another thread, and the packets of a command
\* follow one another on the HID endpoint with nothing of another thread
\* between them.
C22_HandleSerialized ==
    /\ \A k \in 1..Len(wire) : wire[k].th # "worker" => ~wire[k].uploading
    /\ \A k \in 1..Len(wire) - 1 :
          wire[k].pkt < wire[k].npkt =>
              (wire[k + 1].th = wire[k].th /\ wire[k + 1].pkt = wire[k].pkt + 1)

----------------------------------------------------------------------------
(* drivers/dcs_controller.py: threads calling connect, disconnect and command
   methods on one DCSController, one step per socket operation.  The
   controller answers every datagram that reaches it on the socket it came
   from; a send or a receive may also fail, and a receive may time out. *)

MaxOps == 2
MaxSoloOps == 4

DcsThreads == {"t1", "t2"}

\* what the network does with a sendto and with a recvfrom
SendOutcomes == {"ok", "error"}
RecvOutcomes == {"ok", "timeout", "error"}
\* a reply datagram is ASCII text, or bytes that decode("ascii") rejects
ReplyTexts == {"ascii", "undecodable"}

IdleCaller == [n |-> 0, op |-> "none", res |-> "none", net |-> "none", s |-> 0]

\* DCSController.__init__
InitController ==
    /\ sock = [cur |-> 0, connected |-> FALSE, next |-> 1, closed |-> {}, inbox |-> <<>>]
    /\ lock = "none"
    /\ wire = <<>>
    /\ ops = 0
    /\ gui = [dlp |-> "None"]
    /\ dmd = "open"
    /\ sstage = "unused"
    /\ sin = [t |-> "none"]
    /\ buffer = <<>>
    /\ data_counter = 0
    /\ packets = <<>>
    /\ reply = <<>>
    /\ response = NoResult
    /\ timeouts = 0
    /\ cin = [t |-> "none"]
    /\ cstage = "unused"
    /\ cenc = NoResult
    /\ cdec = NoResult
    /\ dual_controller = FALSE
    /\ on_the_fly_patterns = NoPatterns
    /\ pc = "idle"
    /\ call = [op |-> "none"]
    /\ ii = 0
    /\ todo = <<>>
    /\ cmds = <<>>
    /\ after = "none"
    /\ result = "none"
    /\ faults = 0

\* a controller object shared by two threads
InitDcs ==
    /\ InitController
    /\ tpc = [t \in DcsThreads |-> "idle"]
    /\ tlocal = [t \in DcsThreads |-> IdleCaller]

\* a controller object used from one thread
InitDcsSolo ==
    /\ InitController
    /\ tpc = [t \in DcsThreads |-> IF t = "t1" THEN "idle" ELSE "absent"]
    /\ tlocal = [t \in DcsThreads |-> IdleCaller]

DcsFrame ==
    /\ UNCHANGED <<gui, dmd, sstage, sin, buffer, data_counter, packets, reply, response, timeouts>>
    /\ UNCHANGED <<cvars, dvars>>

\* a store to the flag that leaves it as it was
clear_flag_kept(k) == k

\* self._socket.close()
close_socket(k) == [k EXCEPT !.closed = @ \cup {k.cur}]

\* self._socket = None
clear_socket(k) == [k EXCEPT !.cur = 0]

\* self._connected = False
clear_flag(k) == [k EXCEPT !.connected = FALSE]

\* the datagrams waiting on socket s, oldest first
Waiting(k, s) == SelectSeq(k.inbox, LAMBDA d : d.s = s)

\* the inbox without the oldest datagram of socket s
Received(k, s) ==
    IF Waiting(k, s) = <<>> THEN k.inbox
    ELSE LET at == CHOOSE j \in 1..Len(k.inbox) : k.inbox[j].s = s /\ \A i \in 1..j - 1 : k.inbox[i].s # s
         IN  [j \in 1..Len(k.inbox) - 1 |-> IF j < at THEN k.inbox[j] ELSE k.inbox[j + 1]]

\* what self._socket.sendto does: AttributeError on None, OSError on a closed
\* socket, and otherwise what the network does
SendResult(k, net) ==
    IF k.cur = 0 THEN "AttributeError" ELSE IF k.cur \in k.closed THEN "error" ELSE net

\* how a recvfrom on socket s ends: OSError when the socket was closed under
\* it, a timeout when no datagram waits, and otherwise what the network does
RecvResult(k, s, net) ==
    IF s \in k.closed THEN "error"
    ELSE IF net = "ok" /\ Waiting(k, s) = <<>> THEN "timeout" ELSE net

\* a thread is between sending a datagram and receiving its reply
Awaiting(t) == tpc[t] \in {"connect_recv", "connect_wait", "command_recv", "command_wait"}

\* a lone caller makes up to MaxSoloOps calls, each of two up to MaxOps
Called(t) ==
    /\ tpc[t] = "idle"
    /\ tlocal[t].n < IF \E u \in DcsThreads : tpc[u] = "absent" THEN MaxSoloOps ELSE MaxOps
Enter(t, op) == [tlocal EXCEPT ![t] = [n |-> @.n + 1, op |-> op, res |-> "none", net |-> "none", s |-> 0]]
Leave(t, res, net) == [tlocal EXCEPT ![t].res = res, ![t].net = net]

\* where _send_command's caller goes on: is_connected catches what it raises
Query(t) == tlocal[t].op = "is_connected"
AfterRaise(t) == IF Query(t) THEN "is_connected_except" ELSE "idle"
ResponseOf(t) == IF Query(t) THEN "True" ELSE "returned"

\* connect: self.disconnect() is entered, with its test of self._socket
Connect(t) ==
    /\ Called(t)
    /\ tlocal' = Enter(t, "connect")
    /\ tpc' = [tpc EXCEPT ![t] = IF sock.cur # 0 THEN "disconnect_close" ELSE "disconnect_flag"]
    /\ ops' = ops + 1
    /\ UNCHANGED <<sock, lock, wire>>
    /\ DcsFrame

\* disconnect is entered, with its test of self._socket
Disconnect(t) ==
    /\ Called(t)
    /\ tlocal' = Enter(t, "disconnect")
    /\ tpc' = [tpc EXCEPT ![t] = IF sock.cur # 0 THEN "disconnect_close" ELSE "disconnect_flag"]
    /\ ops' = ops + 1
    /\ UNCHANGED <<sock, lock, wire>>
    /\ DcsFrame

\* disconnect: self._socket.close(); on None the AttributeError leaves
\* disconnect, and connect with it
DisconnectClose(t) ==
    /\ tpc[t] = "disconnect_close"
    /\ IF sock.cur = 0
       THEN /\ tpc' = [tpc EXCEPT ![t] = "idle"]
            /\ tlocal' = Leave(t, "AttributeError", "none")
            /\ UNCHANGED sock
       ELSE /\ tpc' = [tpc EXCEPT ![t] = "disconnect_clear"]
            /\ sock' = close_socket(sock)
            /\ UNCHANGED tlocal
    /\ UNCHANGED <<lock, wire, ops>>
    /\ DcsFrame

\* disconnect: self._socket = None
DisconnectClear(t) ==
    /\ tpc[t] = "disconnect_clear"
    /\ tpc' = [tpc EXCEPT ![t] = "disconnect_flag"]
    /\ sock' = clear_socket(sock)
    /\ UNCHANGED <<lock, wire, tlocal, ops>>
    /\ DcsFrame

\* disconnect: self._connected = False; disconnect returns, to connect or to
\* its caller
DisconnectFlag(t) ==
    /\ tpc[t] = "disconnect_flag"
    /\ sock' = clear_flag(sock)
    /\ IF tlocal[t].op = "connect"
       THEN /\ tpc' = [tpc EXCEPT ![t] = "connect_socket"]
            /\ UNCHANGED tlocal
       ELSE /\ tpc' = [tpc EXCEPT ![t] = "idle"]
            /\ tlocal' = Leave(t, "returned", "none")
    /\ UNCHANGED <<lock, wire, ops>>
    /\ DcsFrame

\* connect: self._socket = socket.socket(...)
ConnectSocket(t) ==
    /\ tpc[t] = "connect_socket"
    /\ sock' = [sock EXCEPT !.cur = sock.next, !.next = @ + 1]
    /\ tpc' = [tpc EXCEPT ![t] = "connect_send"]
    /\ UNCHANGED <<lock, wire, tlocal, ops>>
    /\ DcsFrame

\* connect: self._socket.settimeout(...); self._socket.sendto(...); a failed
\* send goes to the except branch
ConnectSend(t) ==
    /\ tpc[t] = "connect_send"
    /\ \E net \in SendOutcomes :
          LET out == SendResult(sock, net)
          IN  IF out = "AttributeError"
              THEN /\ tpc' = [tpc EXCEPT ![t] = "idle"]
                   /\ tlocal' = Leave(t, "AttributeError", "none")
                   /\ UNCHANGED sock
              ELSE IF out = "error"
              THEN /\ tpc' = [tpc EXCEPT ![t] = "connect_except"]
                   /\ tlocal' = Leave(t, "none", "error")
                   /\ UNCHANGED sock
              ELSE /\ tpc' = [tpc EXCEPT ![t] = "connect_recv"]
                   /\ sock' = [sock EXCEPT !.inbox = Append(@, [s |-> sock.cur, req |-> t])]
                   /\ UNCHANGED tlocal
    /\ UNCHANGED <<lock, wire, ops>>
    /\ DcsFrame

\* connect: self._socket.recvfrom(...) is entered: the socket is taken from
\* the attribute (AttributeError on None) and the wait for the reply begins
ConnectRecv(t) ==
    /\ tpc[t] = "connect_recv"
    /\ IF sock.cur = 0
       THEN /\ tpc' = [tpc EXCEPT ![t] = "idle"]
            /\ tlocal' = Leave(t, "AttributeError", "none")
       ELSE /\ tpc' = [tpc EXCEPT ![t] = "connect_wait"]
            /\ tlocal' = [tlocal EXCEPT ![t].s = sock.cur]
    /\ UNCHANGED <<sock, lock, wire, ops>>
    /\ DcsFrame

\* connect: recvfrom ends, with the reply or into the except branch; a
\* recvfrom that fails takes nothing from the socket
ConnectReply(t) ==
    /\ tpc[t] = "connect_wait"
    /\ \E net \in RecvOutcomes :
          LET s == tlocal[t].s
              out == RecvResult(sock, s, net)
          IN  IF out # "ok"
              THEN /\ tpc' = [tpc EXCEPT ![t] = "connect_except"]
                   /\ tlocal' = Leave(t, "none", out)
                   /\ UNCHANGED <<sock, wire>>
              ELSE /\ tpc' = [tpc EXCEPT ![t] = "connect_store"]
                   /\ tlocal' = Leave(t, "none", "ok")
                   /\ sock' = [sock EXCEPT !.inbox = Received(sock, s)]
                   /\ wire' = Append(wire, [th |-> t, req |-> Waiting(sock, s)[1].req])
    /\ UNCHANGED <<lock, ops>>
    /\ DcsFrame

\* connect: self._connected = True; return True
ConnectStore(t) ==
    /\ tpc[t] = "connect_store"
    /\ tpc' = [tpc EXCEPT ![t] = "idle"]
    /\ tlocal' = Leave(t, "True", "ok")
    /\ sock' = [sock EXCEPT !.connected = TRUE]
    /\ UNCHANGED <<lock, wire, ops>>
    /\ DcsFrame

\* connect, except branch: self._connected = False and the test of
\* self._socket; with no socket connect returns False
ConnectExcept(t) ==
    /\ tpc[t] = "connect_except"
    /\ sock' = clear_flag(sock)
    /\ IF sock.cur = 0
       THEN /\ tpc' = [tpc EXCEPT ![t] = "idle"]
            /\ tlocal' = [tlocal EXCEPT ![t].res = "False"]
       ELSE /\ tpc' = [tpc EXCEPT ![t] = "connect_except_close"]
            /\ UNCHANGED tlocal
    /\ UNCHANGED <<lock, wire, ops>>
    /\ DcsFrame

\* connect, except branch: self._socket.close(); on None the AttributeError
\* leaves connect
ConnectExceptClose(t) ==
    /\ tpc[t] = "connect_except_close"
    /\ IF sock.cur = 0
       THEN /\ tpc' = [tpc EXCEPT ![t] = "idle"]
            /\ tlocal' = [tlocal EXCEPT ![t].res = "AttributeError"]
            /\ UNCHANGED sock
       ELSE /\ tpc' = [tpc EXCEPT ![t] = "connect_except_clear"]
            /\ sock' = close_socket(sock)
            /\ UNCHANGED tlocal
    /\ UNCHANGED <<lock, wire, ops>>
    /\ DcsFrame

\* connect, except branch: self._socket = None; return False
ConnectExceptClear(t) ==
    /\ tpc[t] = "connect_except_clear"
    /\ tpc' = [tpc EXCEPT ![t] = "idle"]
    /\ tlocal' = [tlocal EXCEPT ![t].res = "False"]
    /\ sock' = clear_socket(sock)
    /\ UNCHANGED <<lock, wire, ops>>
    /\ DcsFrame

\* _send_command: the connection test
Command(t) ==
    /\ Called(t)
    /\ IF ~sock.connected \/ sock.cur = 0
       THEN /\ tlocal' = [Enter(t, "command") EXCEPT ![t].res = "ConnectionError"]
            /\ UNCHANGED tpc
       ELSE /\ tlocal' = Enter(t, "command")
            /\ tpc' = [tpc EXCEPT ![t] = "command_lock"]
    /\ ops' = ops + 1
    /\ UNCHANGED <<sock, lock, wire>>
    /\ DcsFrame

\* is_connected: False when the flag is down; else get_mode, whose
\* _send_command makes the connection test
IsConnected(t) ==
    /\ Called(t)
    /\ IF ~sock.connected
       THEN /\ tlocal' = [Enter(t, "is_connected") EXCEPT ![t].res = "False"]
            /\ UNCHANGED tpc
       ELSE IF sock.cur = 0
       THEN /\ tlocal' = [Enter(t, "is_connected") EXCEPT ![t].res = "ConnectionError"]
            /\ tpc' = [tpc EXCEPT ![t] = "is_connected_except"]
       ELSE /\ tlocal' = Enter(t, "is_connected")
            /\ tpc' = [tpc EXCEPT ![t] = "command_lock"]
    /\ ops' = ops + 1
    /\ UNCHANGED <<sock, lock, wire>>
    /\ DcsFrame

\* is_connected: except (ConnectionError, Exception): self._connected = False; return False
IsConnectedExcept(t) ==
    /\ tpc[t] = "is_connected_except"
    /\ tpc' = [tpc EXCEPT ![t] = "idle"]
    /\ tlocal' = [tlocal EXCEPT ![t].res = "False"]
    /\ sock' = clear_flag(sock)
    /\ UNCHANGED <<lock, wire, ops>>
    /\ DcsFrame

\* _send_command: with self._lock
CommandLock(t) ==
    /\ tpc[t] = "command_lock"
    /\ lock = "none"
    /\ lock' = t
    /\ tpc' = [tpc EXCEPT ![t] = "command_send"]
    /\ UNCHANGED <<sock, wire, tlocal, ops>>
    /\ DcsFrame

\* _send_command: self._socket.sendto(...)
CommandSend(t) ==
    /\ tpc[t] = "command_send"
    /\ \E net \in SendOutcomes :
          LET out == SendResult(sock, net)
          IN  IF out = "AttributeError"
              THEN /\ tpc' = [tpc EXCEPT ![t] = AfterRaise(t)]
                   /\ tlocal' = Leave(t, "AttributeError", "none")
                   /\ lock' = "none"
                   /\ UNCHANGED sock
              ELSE IF out = "error"
              THEN /\ tpc' = [tpc EXCEPT ![t] = AfterRaise(t)]
                   /\ tlocal' = Leave(t, "ConnectionError", "error")
                   /\ lock' = "none"
                   /\ sock' = clear_flag(sock)
              ELSE /\ tpc' = [tpc EXCEPT ![t] = "command_recv"]
                   /\ sock' = [sock EXCEPT !.inbox = Append(@, [s |-> sock.cur, req |-> t])]
                   /\ UNCHANGED <<lock, tlocal>>
    /\ UNCHANGED <<wire, ops>>
    /\ DcsFrame

\* _send_command: self._socket.recvfrom(...) is entered: the socket is taken
\* from the attribute (AttributeError on None) and the wait for the reply begins
CommandRecv(t) ==
    /\ tpc[t] = "command_recv"
    /\ IF sock.cur = 0
       THEN /\ tpc' = [tpc EXCEPT ![t] = AfterRaise(t)]
            /\ tlocal' = Leave(t, "AttributeError", "none")
            /\ lock' = "none"
       ELSE /\ tpc' = [tpc EXCEPT ![t] = "command_wait"]
            /\ tlocal' = [tlocal EXCEPT ![t].s = sock.cur]
            /\ UNCHANGED lock
    /\ UNCHANGED <<sock, wire, ops>>
    /\ DcsFrame

\* _send_command: recvfrom ends; the reply is decoded and returned, or
\* ConnectionError raised, or the decoding fails; the lock is released.  A
\* recvfrom that times out or fails takes nothing from the socket: a reply
\* that comes late waits there for the next recvfrom
CommandReply(t) ==
    /\ tpc[t] = "command_wait"
    /\ lock' = "none"
    /\ \E net \in RecvOutcomes, text \in ReplyTexts :
          LET s == tlocal[t].s
              out == RecvResult(sock, s, net)
          IN  IF out = "error"
              THEN /\ tpc' = [tpc EXCEPT ![t] = AfterRaise(t)]
                   /\ tlocal' = Leave(t, "ConnectionError", "error")
                   /\ sock' = clear_flag(sock)
                   /\ UNCHANGED wire
              ELSE IF out = "timeout"
              THEN /\ tpc' = [tpc EXCEPT ![t] = AfterRaise(t)]
                   /\ tlocal' = Leave(t, "ConnectionError", "timeout")
                   /\ UNCHANGED <<sock, wire>>
              ELSE /\ wire' = Append(wire, [th |-> t, req |-> Waiting(sock, s)[1].req])
                   /\ sock' = [sock EXCEPT !.inbox = Received(sock, s)]
                   /\ IF text = "ascii"
                      THEN /\ tpc' = [tpc EXCEPT ![t] = "idle"]
                           /\ tlocal' = Leave(t, ResponseOf(t), "ok")
                      ELSE /\ tpc' = [tpc EXCEPT ![t] = AfterRaise(t)]
                           /\ tlocal' = Leave(t, "UnicodeDecodeError", "ok")
    /\ UNCHANGED ops
    /\ DcsFrame

NextDcs ==
    \E t \in DcsThreads :
        \/ Connect(t) \/ Disconnect(t)
        \/ DisconnectClose(t) \/ DisconnectClear(t) \/ DisconnectFlag(t)
        \/ ConnectSocket(t) \/ ConnectSend(t) \/ ConnectRecv(t)
        \/ ConnectReply(t) \/ ConnectStore(t)
        \/ ConnectExcept(t) \/ ConnectExceptClose(t) \/ ConnectExceptClear(t)
        \/ Command(t) \/ CommandLock(t) \/ CommandSend(t) \/ CommandRecv(t)
        \/ CommandReply(t)
        \/ IsConnected(t) \/ IsConnectedExcept(t)

SpecDcs == InitDcs /\ [][NextDcs]_vars

SpecDcsSolo == InitDcsSolo /\ [][NextDcs]_vars

\* C23: for every interleaving of connect, disconnect and command calls on
\* one DCSController at most one thread at a time is between sending a
\* datagram and receiving its reply, and no thread receives the reply to
\* another thread's request.
C23_SocketSerialized ==
    /\ Cardinality({t \in DcsThreads : Awaiting(t)}) <= 1
    /\ \A k \in 1..Len(wire) : wire[k].req = wire[k].th

\* C33: a command call interleaved with a disconnect or connect on the same
\* object either returns the controller's response or raises ConnectionError:
\* it fails with no other kind of error, which an I/O attempt on a socket
\* reference cleared to None would be.
C33_CommandOutcome ==
    \A t \in DcsThreads :
        (tlocal[t].op = "command" /\ tpc[t] = "idle") =>
            tlocal[t].res \in {"returned", "ConnectionError"}

\* no method is executing
Quiet == \A t \in DcsThreads : tpc[t] \in {"idle", "absent"}

\* C37: on a DCSController used from one thread, whatever the network does,
\* whenever no method is executing connected implies an existing open socket;
\* a response timeout raises ConnectionError and leaves connected true, any
\* other socket error raises ConnectionError and sets connected false, and a
\* failed connect leaves connected false with no socket.
C37_ConnectedHasSocket ==
    Quiet =>
        /\ sock.connected => (sock.cur # 0 /\ sock.cur \notin sock.closed)
        /\ \A t \in DcsThreads :
              /\ (tlocal[t].op = "command" /\ tlocal[t].net = "timeout") =>
                    (tlocal[t].res = "ConnectionError" /\ sock.connected)
              /\ (tlocal[t].op = "command" /\ tlocal[t].net = "error") =>
                    (tlocal[t].res = "ConnectionError" /\ ~sock.connected)
              /\ (tlocal[t].op = "command" /\ tlocal[t].res = "returned") => tlocal[t].net = "ok"
              /\ (tlocal[t].op = "connect" /\ tlocal[t].res # "True") =>
                    (tlocal[t].res = "False" /\ ~sock.connected /\ sock.cur = 0
                     /\ tlocal[t].net \in {"timeout", "error"})
              /\ (tlocal[t].op = "connect" /\ tlocal[t].res = "True") => sock.connected

C37_Witness ==
    /\ Quiet /\ tpc["t2"] = "absent"
    /\ tlocal["t1"].op = "command" /\ tlocal["t1"].net = "timeout"
    /\ tlocal["t1"].res = "ConnectionError" /\ tlocal["t1"].n = 3
    /\ sock.connected /\ sock.cur = 2 /\ sock.closed = {1}

----------------------------------------------------------------------------
(* Claims about the packets of one command (SpecSend) *)

\* byte k of the 64 data bytes of the j-th HID write
Sent(j, k) == packets[j][k + 1]

\* a command with a payload longer than 58 bytes has been sent
C24_Case == sin.t = "command" /\ sstage = "returned" /\ Len(sin.data) > 58

\* C24 as the spec states it: for a payload longer than 58 bytes the first
\* packet carries the 6-byte header and the first 58 payload bytes, and every
\* following packet is one marker byte and then the next 63 payload bytes,
\* zero-padded at the end, so that the payload is read back by skipping the
\* first byte of every continuation packet.
C24_ContinuationAsStated ==
    C24_Case =>
        \A j \in 1..Len(packets) : \A k \in 1..packet_length_bytes :
            IF j = 1
            THEN k > 6 => Sent(1, k) = sin.data[k - 6]
            ELSE k > 1 => LET at == 58 + 63 * (j - 2) + (k - 1)
                          IN  Sent(j, k) = IF at <= Len(sin.data) THEN sin.data[at] ELSE 0

\* C24: for a payload longer than 58 bytes the first packet carries the 6-byte
\* header and the first 58 payload bytes, and every following packet carries
\* the next 64 payload bytes with no marker, the last one zero-padded to 64
\* bytes; the bytes after the header, read back in packet order up to the
\* payload length, equal the payload.
C24_Continuation ==
    C24_Case =>
        /\ \A j \in 1..Len(packets) : Len(packets[j]) = packet_length_bytes + 1
        /\ \A k \in 1..6 : Sent(1, k) = buffer[k]
        /\ \A k \in 7..packet_length_bytes : Sent(1, k) = sin.data[k - 6]
        /\ \A j \in 2..Len(packets) : \A k \in 1..packet_length_bytes :
              LET at == 58 + packet_length_bytes * (j - 2) + k
              IN  Sent(j, k) = IF at <= Len(sin.data) THEN sin.data[at] ELSE 0
        /\ Len(packets) * packet_length_bytes >= Len(sin.data) + 6
        /\ \A n \in 1..Len(sin.data) :
              Sent(((n + 5) \div packet_length_bytes) + 1, ((n + 5) % packet_length_bytes) + 1) = sin.data[n]

C24_Witness ==
    /\ C24_Case
    /\ Len(sin.data) = 60 /\ Len(packets) = 2
    /\ Sent(2, 1) = sin.data[59] /\ Sent(2, 2) = sin.data[60] /\ Sent(2, 3) = 0

\* C25: the first six bytes of a command's first packet are the flag byte
\* (0x80 for a read plus 0x40 for a requested reply, bits 5..0 zero), the
\* sequence byte, the length of payload + 2 low byte first, and the opcode low
\* byte first; every HID write is 65 bytes beginning with report id 0; and an
\* rw_mode other than 'r' or 'w' is rejected before anything is written.
C25_HeaderAndReport ==
    sin.t = "command" =>
        /\ \A j \in 1..Len(packets) : Len(packets[j]) = 65 /\ packets[j][1] = 0
        /\ packets # <<>> =>
              LET L == Len(sin.data) + 2
                  flag == (IF sin.rw = "r" THEN 128 ELSE 0) + (IF sin.rep THEN 64 ELSE 0)
              IN  /\ <<Sent(1, 1), Sent(1, 2), Sent(1, 3), Sent(1, 4), Sent(1, 5), Sent(1, 6)>>
                        = <<flag, sin.seq, L % 256, L \div 256, sin.cmd % 256, sin.cmd \div 256>>
                  /\ Sent(1, 1) % 64 = 0
                  /\ Sent(1, 4) < 256 /\ Sent(1, 6) < 256
        /\ sin.rw \notin {"r", "w"} =>
              /\ packets = <<>>
              /\ sstage \in {"input", "raised"}
              /\ sstage = "raised" => response.err = "ValueError"

C25_Witness ==
    /\ sin.t = "command" /\ sstage = "returned"
    /\ sin.rw = "r" /\ sin.rep /\ sin.seq = 5 /\ Len(sin.data) = max_cmd_payload
    /\ Sent(1, 1) = 192 /\ Sent(1, 2) = 5 /\ Sent(1, 3) = 250 /\ Sent(1, 4) = 1

----------------------------------------------------------------------------
(* Claims about one BMP load and about the time vectors (Spec) *)

\* the chunk lengths of the data commands of the group whose init is at i
ChunkLens(loads, i) == [j \in 1..GroupEnd(loads, i) - i |-> Len(loads[i + j].data) - 2]

\* the byte length an init announces
Announced(c) == c.data[3] + 256 * c.data[4] + 65536 * c.data[5] + 16777216 * c.data[6]

\* nothing more is written for the group whose init is at i
GroupDone(loads, i) == GroupEnd(loads, i) < Len(loads) \/ Returned

\* the compressed bytes handed to the load of the group at the m-th init
Compressed(loads, at, m) ==
    LET frame == combined_frame(Patterns(call.pat), Tag(loads[at[m]]).v)
    IN  IF dual_controller THEN encode_erle(ColumnHalf(frame, m % 2 = 1)).val
        ELSE encode_erle(frame).val

\* C26: one BMP load writes one init announcing the compressed length + 48 and
\* then data commands whose chunks, concatenated, are the 48-byte header and
\* the compressed bytes: every chunk has 1..504 bytes, every chunk but the
\* last exactly 504, each data command's 2-byte little-endian prefix is its
\* chunk length, and the chunk lengths sum to the announced length.
C26_BmpLoadChunks ==
    call.op = "upload" =>
        LET loads == Loads
            at == InitAt(loads)
        IN  \A m \in 1..Len(at) :
                LET i == at[m]
                    lens == ChunkLens(loads, i)
                    bytes == GroupBytes(loads, i)
                    L == Len(Compressed(loads, at, m))
                IN  /\ Announced(loads[i]) = L + 48
                    /\ \A j \in 1..Len(lens) :
                          /\ lens[j] \in 1..max_cmd_payload
                          /\ j < Len(lens) => lens[j] = max_cmd_payload
                          /\ loads[i + j].data[1] + 256 * loads[i + j].data[2] = lens[j]
                    /\ bytes = SubSeq(bmp_header(dual_controller, L, call.compression)
                                      \o Compressed(loads, at, m), 1, Len(bytes))
                    /\ GroupDone(loads, i) =>
                          /\ Len(bytes) = Announced(loads[i])
                          /\ Len(lens) = CeilDiv(L + 48, max_cmd_payload)

C26_Witness ==
    /\ call.op = "upload" /\ Returned
    /\ \E m \in 1..Len(InitAt(Loads)) :
          /\ Len(ChunkLens(Loads, InitAt(Loads)[m])) >= 2
          /\ ChunkLens(Loads, InitAt(Loads)[m])[1] = max_cmd_payload
          /\ ChunkLens(Loads, InitAt(Loads)[m])[Len(ChunkLens(Loads, InitAt(Loads)[m]))] < max_cmd_payload

\* the number of entries of the sequence of the call
Entered == IF call.op = "upload" THEN call.pat.n ELSE Len(call.inds)

\* an exposure or dark time vector that is neither one value nor one per entry
Unbroadcastable == Len(call.exp) \notin {1, Entered} \/ Len(call.dark) \notin {1, Entered}

\* every LUT configuration written carries the number of LUT definitions
\* written before it
ConfiguredAsDefined ==
    \A j \in 1..Len(cmds) :
        Tag(cmds[j]).k = "cfg" =>
            Tag(cmds[j]).v = Cardinality({i \in 1..j - 1 : Tag(cmds[i]).k = "lut"})

\* C27: upload_pattern_sequence and set_pattern_sequence reject with an error
\* an exposure or dark time vector whose length is neither 1 nor the number
\* of entries, writing no LUT definition; so every LUT configuration carries
\* the number of LUT definitions written before it.
C27_TimeVectorsChecked ==
    call.op \in {"upload", "set"} =>
        /\ Unbroadcastable =>
              /\ \A j \in 1..Len(cmds) : Tag(cmds[j]).k # "lut"
              /\ result # "returned"
        /\ ConfiguredAsDefined

\* with time vectors of one value or one per entry the configurations carry
\* the number of definitions
ConfiguredWhenBroadcastable ==
    (call.op \in {"upload", "set"} /\ ~Unbroadcastable) => ConfiguredAsDefined

----------------------------------------------------------------------------
(* Claims about the encoders' records and the combined frames (SpecCodec) *)

\* row r of the image equals the row above it
CopiesRow(p, r) == r > 1 /\ RowRgb(p, r) = RowRgb(p, r - 1)

\* the stream whose record for a row equal to the one above is 0x00, 0x01 and
\* erle_len2bytes(W), the other rows' records being their runs
CopyRecord(p, r) ==
    IF CopiesRow(p, r) THEN <<0, 1>> \o erle_len2bytes(NCols(p)).val
    ELSE erle_runs(row_runs(RowRgb(p, r))).val
CopyStream(p) == Flatten([r \in 1..NRows(p) |-> CopyRecord(p, r)], 1, NRows(p)) \o <<0, 1, 0>>

\* C28: for every width W and every row equal to the row above, encode_erle
\* does not fail and emits for that row 0x00, 0x01 and erle_len2bytes(W): 3
\* bytes when W < 128, 4 bytes when W >= 128.
C28_RowCopyRecord ==
    (cstage = "erle" /\ \E r \in 1..NRows(Image(cin)) : CopiesRow(Image(cin), r)) =>
        /\ cenc.err = "none"
        /\ cenc.val = CopyStream(Image(cin))
        /\ Len(erle_len2bytes(cin.w).val) = IF cin.w < 128 THEN 1 ELSE 2

\* from width 128 on the record of a copied row is as stated
RowCopyRecordWhenWide ==
    (cstage = "erle" /\ cin.w >= 128 /\ \E r \in 1..NRows(Image(cin)) : CopiesRow(Image(cin), r)) =>
        /\ cenc.err = "none"
        /\ cenc.val = CopyStream(Image(cin))

\* the groups [L, r, g, b] of one maximal run of R pixels: ceil(R / 255) of
\* them, 255 pixels each but for the last, R pixels in all
RunGroups(R, px) ==
    LET g == CeilDiv(R, RleMaxRun)
    IN  Flatten([k \in 1..g |-> <<IF k < g THEN RleMaxRun ELSE R - RleMaxRun * (g - 1)>> \o px], 1, g)

\* the record of row r of an image descriptor: the groups of its maximal runs,
\* or the copy record when it equals the row above
RowGroups(d, r) ==
    IF r > 1 /\ d.rows[r] = d.rows[r - 1] THEN <<0, 1>> \o erle_len2bytes(d.w).val
    ELSE Flatten([k \in 1..Len(d.rows[r]) |-> RunGroups(d.rows[r][k].n, d.rows[r][k].px)],
                 1, Len(d.rows[r]))
GroupStream(d) == Flatten([r \in 1..Len(d.rows) |-> RowGroups(d, r)], 1, Len(d.rows)) \o <<0>>

\* C29: encode_rle emits, for every row that is not a copy of the row above
\* and every maximal run of R equal pixels in it, ceil(R / 255) groups
\* [L, r, g, b] with L in 1..255, every L but possibly the last 255, the L
\* summing to R; and the encoded image ends with the single byte 0x00.
C29_RleGroups ==
    cstage = "rle" =>
        /\ cenc.err = "none"
        /\ cenc.val = GroupStream(cin)

\* what encode_rle returns when it returns is made of the stated groups
RleGroupsWhenEncoded ==
    (cstage = "rle" /\ cenc.err = "none") => cenc.val = GroupStream(cin)

\* encode_rle fails only on a copied row narrower than 128 columns
RleFailsOnNarrowCopy ==
    (cstage = "rle" /\ cenc.err # "none") =>
        /\ cin.w < TwoByteMin
        /\ \E r \in 1..NRows(Image(cin)) : CopiesRow(Image(cin), r)

\* the bit of a combined frame that holds pattern i of it, i in 0..23: bit i
\* of plane B (index 2) for i in 0..7, bit i - 8 of plane G (index 1) for i in
\* 8..15, bit i - 16 of plane R (index 0) for i in 16..23
FrameBit(frame, i, r, c) == (frame[3 - (i \div 8)][r][c] \div 2^(i % 8)) % 2

\* C30: for N >= 1 binary frames of H x W, combine_patterns returns exactly
\* ceil(N / 24) frames of 3 x H x W in which the bit of frame 24k + i is the
\* stated bit of the stated plane of combined frame k, the bits of frame
\* numbers from N on being zero; a frame with a value other than 0 and 1 is
\* rejected.
C30_CombinedBits ==
    cstage = "combined" =>
        LET patterns == Patterns(cin)
        IN  IF ~IsBinary(patterns) THEN cenc.err # "none"
            ELSE /\ cenc.err = "none"
                 /\ Len(cenc.val) = CeilDiv(cin.n, 24)
                 /\ \A k \in 1..Len(cenc.val) :
                       /\ Len(cenc.val[k]) = 3
                       /\ \A pl \in 1..3 :
                             /\ Len(cenc.val[k][pl]) = cin.h
                             /\ \A r \in 1..cin.h : Len(cenc.val[k][pl][r]) = cin.w
                       /\ \A i \in 0..23, r \in 1..cin.h, c \in 1..cin.w :
                             FrameBit(cenc.val[k], i, r, c) =
                                 IF 24 * (k - 1) + i < cin.n THEN patterns[24 * (k - 1) + i + 1][r][c]
                                 ELSE 0

C30_Witness ==
    /\ cstage = "combined" /\ cenc.err = "none"
    /\ cin.n = 25 /\ cin.kind = "onehot" /\ cin.hot = 16 /\ cin.h = 2
    /\ Len(cenc.val) = 2
    /\ cenc.val[1][1][1][1] = 1 /\ cenc.val[1][2][1][1] = 0 /\ cenc.val[1][3][1][1] = 0

----------------------------------------------------------------------------
(* dlp_driver.py: the queries and the trigger-in settings of dlpc900_dmd, one
   call on an open device *)

\* command_dict
Read_Error_Code == 256          \* 0x0100
Get_Hardware_Status == 6666     \* 0x1A0A
Get_System_Status == 6667       \* 0x1A0B
Get_Main_Status == 6668         \* 0x1A0C
Get_Firmware_Version == 517     \* 0x0205
Get_Firmware_Type == 518        \* 0x0206

\* the delay set_trigger_in1 compares with: if delay_us < 104
trigger_delay_floor == 104

\* the send_command of each query
read_error_code == Cmd("w", TRUE, Read_Error_Code, <<>>, 0)
get_hw_status == Cmd("r", TRUE, Get_Hardware_Status, <<>>, 0)
get_system_status == Cmd("r", TRUE, Get_System_Status, <<>>, 0)
get_main_status == Cmd("r", TRUE, Get_Main_Status, <<>>, 0)
get_firmware_version == Cmd("r", TRUE, Get_Firmware_Version, <<>>, 0)
get_firmware_type == Cmd("r", TRUE, Get_Firmware_Type, <<>>, 0)

Queries ==
    ("read_error_code" :> read_error_code) @@ ("read_error_description" :> read_error_description)
    @@ ("get_hw_status" :> get_hw_status) @@ ("get_system_status" :> get_system_status)
    @@ ("get_main_status" :> get_main_status) @@ ("get_firmware_version" :> get_firmware_version)
    @@ ("get_firmware_type" :> get_firmware_type) @@ ("get_trigger_in1" :> get_trigger_in1)
    @@ ("get_trigger_in2" :> get_trigger_in2)

\* resp['data'] of the reply to a query; the read may also time out
ReplyData == {<<>>, <<0>>, <<1>>, <<9>>, <<105, 0>>, <<105, 0, 1>>, [k \in 1..16 |-> k]}

\* what a query does with resp['data'] once decode_response has returned
query_result(name, data) ==
    IF name \in {"read_error_code", "read_error_description"} THEN "returned"
    ELSE IF name \in {"get_hw_status", "get_system_status", "get_main_status", "get_trigger_in2"}
    THEN IF Len(data) < 1 THEN "IndexError" ELSE "returned"
    ELSE IF name = "get_trigger_in1" THEN IF Len(data) < 3 THEN "IndexError" ELSE "returned"
    ELSE IF name = "get_firmware_type"
    THEN IF Len(data) < 1 THEN "IndexError"
         ELSE IF data[1] \notin 0..5 THEN "ValueError" ELSE "returned"
    ELSE IF Len(data) >= 16 THEN "returned"
    ELSE IF Len(data) % 4 < 2 THEN "struct.error" ELSE "IndexError"

\* set_trigger_in1(delay_us, edge_to_advance): the command, or what it raises
set_trigger_in1(delay_us, edge_to_advance) ==
    IF delay_us < trigger_delay_floor THEN Raise("ValueError")
    ELSE IF delay_us > 65535 THEN Raise("struct.error")
    ELSE IF edge_to_advance \notin {"rising", "falling"} THEN Raise("ValueError")
    ELSE Ok(Cmd("w", TRUE, TRIG_IN1_CTL,
                U16(delay_us) \o <<IF edge_to_advance = "rising" THEN 0 ELSE 1>>, 0))

\* set_trigger_in2(edge_to_start)
set_trigger_in2(edge_to_start) ==
    IF edge_to_start \notin {"rising", "falling"} THEN Raise("ValueError")
    ELSE Ok(Cmd("w", FALSE, TRIG_IN2_CTL, <<IF edge_to_start = "rising" THEN 0 ELSE 1>>, 0))

MaxInitialize == 1

\* _get_device: the device is opened, or none is found
DeviceOutcomes == {"ok", "error"}

Delays == {-1, 0, 65535, 65536} \cup (min_time_us - 10..min_time_us + 10)
Edges == {"rising", "falling", "both"}

InitFacade ==
    /\ dual_controller \in BOOLEAN
    /\ on_the_fly_patterns = NoPatterns
    /\ pc = "idle"
    /\ call = [op |-> "none"]
    /\ ii = 0
    /\ todo = <<>>
    /\ cmds = <<>>
    /\ after = "none"
    /\ result = "none"
    /\ faults = 0
    /\ sstage = "unused"
    /\ sin = [t |-> "none"]
    /\ buffer = <<>>
    /\ data_counter = 0
    /\ packets = <<>>
    /\ reply = <<>>
    /\ response = NoResult
    /\ dmd = "open"
    /\ timeouts = 0
    /\ tpc = <<>>
    /\ tlocal = <<>>
    /\ lock = "none"
    /\ sock = [cur |-> 0]
    /\ wire = <<>>
    /\ gui = [dlp |-> "None"]
    /\ ops = 0
    /\ cin = [t |-> "none"]
    /\ cstage = "unused"
    /\ cenc = NoResult
    /\ cdec = NoResult

FacadeFrame ==
    /\ UNCHANGED <<dual_controller, on_the_fly_patterns, pc, ii, todo, after, faults>>
    /\ UNCHANGED <<sstage, sin, buffer, data_counter, packets, response, dmd, timeouts>>
    /\ UNCHANGED <<cvars, avars>>

\* one query: its command is written, the reply read and decoded (an empty
\* buffer makes decode_response raise ValueError) and its data used
CallQuery ==
    /\ pc = "idle" /\ result = "none"
    /\ \E name \in DOMAIN Queries, timed_out \in BOOLEAN, data \in ReplyData :
          /\ call' = [op |-> "query", name |-> name]
          /\ cmds' = <<[Queries[name] EXCEPT !.resp = IF timed_out THEN "empty" ELSE "ok"]>>
          /\ reply' = IF timed_out THEN <<>> ELSE data
          /\ result' = IF timed_out THEN "ValueError" ELSE query_result(name, data)
    /\ FacadeFrame

\* set_trigger_in1, which returns the reply as it came
CallSetTriggerIn1 ==
    /\ pc = "idle" /\ result = "none"
    /\ \E delay_us \in Delays, edge \in Edges, timed_out \in BOOLEAN :
          LET c == set_trigger_in1(delay_us, edge)
          IN  /\ call' = [op |-> "set_trigger_in1", delay |-> delay_us, edge |-> edge]
              /\ cmds' = IF c.err # "none" THEN <<>>
                         ELSE <<[c.val EXCEPT !.resp = IF timed_out THEN "empty" ELSE "ok"]>>
              /\ result' = IF c.err # "none" THEN c.err ELSE "returned"
    /\ UNCHANGED reply
    /\ FacadeFrame

\* set_trigger_in2, which asks for no reply
CallSetTriggerIn2 ==
    /\ pc = "idle" /\ result = "none"
    /\ \E edge \in Edges :
          LET c == set_trigger_in2(edge)
          IN  /\ call' = [op |-> "set_trigger_in2", edge |-> edge]
              /\ cmds' = IF c.err # "none" THEN <<>> ELSE <<c.val>>
              /\ result' = IF c.err # "none" THEN c.err ELSE "returned"
    /\ UNCHANGED reply
    /\ FacadeFrame

\* initialize(): __init__ run again with its defaults, which clears the
\* recorded patterns and opens the device anew; self._dmd is then the new
\* handle, and with no device found ConnectionError leaves the call
CallInitialize ==
    /\ pc = "idle" /\ result = "none"
    /\ ops < MaxInitialize
    /\ ops' = ops + 1
    /\ on_the_fly_patterns' = NoPatterns
    /\ \E o \in DeviceOutcomes :
          IF o = "ok"
          THEN /\ dmd' = "open"
               /\ UNCHANGED <<call, result>>
          ELSE /\ call' = [op |-> "initialize"]
               /\ result' = "ConnectionError"
               /\ UNCHANGED dmd
    /\ UNCHANGED <<dual_controller, pc, ii, todo, cmds, after, faults, reply>>
    /\ UNCHANGED <<sstage, sin, buffer, data_counter, packets, response, timeouts>>
    /\ UNCHANGED <<cvars, tpc, tlocal, lock, sock, wire, gui>>

NextFacade == CallQuery \/ CallSetTriggerIn1 \/ CallSetTriggerIn2 \/ CallInitialize

SpecFacade == InitFacade /\ [][NextFacade]_vars

\* C31: set_trigger_in1 rejects every delay below 105 microseconds with a
\* validation error and writes no command for it; a delay of exactly 104 is
\* rejected.
C31_ShortDelayRejected ==
    (call.op = "set_trigger_in1" /\ call.delay < min_time_us) =>
        /\ result = "ValueError"
        /\ cmds = <<>>

\* delays below 104 are rejected and nothing is written for them
DelayBelowFloorRejected ==
    (call.op = "set_trigger_in1" /\ call.delay < trigger_delay_floor) =>
        /\ result = "ValueError"
        /\ cmds = <<>>

\* C32: every query of the driver is sent as a read transaction with a reply
\* requested, flag byte 0xC0; so is the Read error code command, opcode 0x0100.
C32_QueriesAreReads ==
    call.op = "query" =>
        /\ Len(cmds) = 1
        /\ cmds[1].rw = "r" /\ cmds[1].reply
        /\ flag_byte(cmds[1].rw, cmds[1].reply) = 192

\* every query but read_error_code is a read transaction with a reply
QueriesButErrorCodeAreReads ==
    (call.op = "query" /\ call.name # "read_error_code") =>
        /\ Len(cmds) = 1
        /\ flag_byte(cmds[1].rw, cmds[1].reply) = 192

----------------------------------------------------------------------------
(* Claims about what an upload has loaded and recorded (Spec) *)

\* before position s of a command list image index img has been loaded by a
\* complete group: an init with the opcode, carrying img, followed by data
\* commands of the announced length in all, the last of them before s
ImageLoaded(loads, s, img, init) ==
    \E i \in 1..s - 1 :
        /\ loads[i].cmd = init
        /\ Tag(loads[i]).v = img
        /\ GroupEnd(loads, i) > i /\ GroupEnd(loads, i) < s
        /\ Len(GroupBytes(loads, i)) = Announced(loads[i])

\* the stored image index a LUT definition refers to
StoredImage(c) == c.data[11]

\* C34: in an on-the-fly upload, before the start command is written every
\* stored image index referred to by a LUT definition of the upload has been
\* loaded by a complete init and data group carrying that index, on the
\* primary controller and on a dual device also on the secondary; and no
\* image index outside 0..ceil(N/24)-1 is loaded.
C34_ImagesLoadedBeforeStart ==
    call.op = "upload" =>
        LET loads == Loads
            at == InitAt(loads)
        IN  /\ \A m \in 1..Len(at) :
                  Tag(loads[at[m]]).v \in 0..CeilDiv(call.pat.n, PerFrame) - 1
            /\ \A s \in 1..Len(loads) : IsStart(loads[s]) =>
                  \A j \in 1..s - 1 : Tag(loads[j]).k = "lut" =>
                      /\ StoredImage(loads[j]) = (Tag(loads[j]).v \div 24)
                      /\ ImageLoaded(loads, s, StoredImage(loads[j]), PATMEM_LOAD_INIT_MASTER)
                      /\ dual_controller =>
                            ImageLoaded(loads, s, StoredImage(loads[j]), PATMEM_LOAD_INIT_SECONDARY)

C34_Witness ==
    /\ call.op = "upload" /\ dual_controller /\ Returned /\ call.pat.n = PerFrame + 1
    /\ \E j \in 1..Len(Loads) : Tag(Loads[j]).k = "lut" /\ StoredImage(Loads[j]) = 1
    /\ \E s \in 1..Len(Loads) :
          /\ IsStart(Loads[s])
          /\ ImageLoaded(Loads, s, 1, PATMEM_LOAD_INIT_SECONDARY)
          /\ ImageLoaded(Loads, s, 0, PATMEM_LOAD_INIT_MASTER)

\* the upload has failed: it raised
Failed == pc = "idle" /\ result \notin {"none", "running", "returned"}

\* C35: an upload_pattern_sequence call that fails leaves the recorded
\* on_the_fly_patterns unchanged: on a fresh driver they are still None after
\* a failed upload, and they are the patterns of the upload once it returned.
C35_FailedUploadLeavesRecord ==
    call.op = "upload" =>
        /\ Failed => on_the_fly_patterns = NoPatterns
        /\ Returned => on_the_fly_patterns = call.pat

\* an upload rejected by the checks before the first command records nothing
RejectedUploadLeavesRecord ==
    (call.op = "upload" /\ Failed /\ cmds = <<>>) => on_the_fly_patterns = NoPatterns

\* ---------------------------------------------------------------------------
\* The application's DLP connection (gui/app.py connect_dlp, disconnect_dlp;
\* gui/connection_panel.py _connect_dlp, _on_dlp_connected, _on_dlp_error,
\* _disconnect_dlp).  Here dmd is the HID layer: the handles that are open and
\* the next handle an open gives; gui holds the application's dlp object
\* (its class, its initialized flag, its _dmd handle, 0 for None) and the two
\* buttons of the panel; the worker is the background thread of a connect.
\* ---------------------------------------------------------------------------

MaxConnects == 3

OpenOutcomes == {"ok", "error"}
\* what the probe learns: a DMD type of the firmware, or "unknown" when a query raises
ProbeOutcomes == {"DLP6500", "DLP9000", "unknown"}

\* a close that leaves the handle open
hid_close_skipped(d, h) == d

\* hid.device().open_path: a new handle, open
hid_open(d) == [d EXCEPT !.open = @ \cup {d.next}, !.next = @ + 1]

\* hid.device.close
hid_close(d, h) == [d EXCEPT !.open = @ \ {h}]

IdleProbe == [base_dmd |-> 0, dmd_type |-> "none"]
NoDlp == [dlp |-> "None", initialized |-> FALSE, handle |-> 0]

InitConn ==
    /\ tpc = [main |-> "idle", worker |-> "none"]
    /\ tlocal = [main |-> <<>>, worker |-> IdleProbe]
    /\ gui = [dlp |-> "None", initialized |-> FALSE, handle |-> 0,
              connect_btn |-> "normal", disconnect_btn |-> "disabled", last |-> "none"]
    /\ dmd = [open |-> {}, next |-> 1]
    /\ wire = <<>>
    /\ ops = 0
    /\ lock = "none"
    /\ sock = [cur |-> 0]
    /\ sstage = "unused"
    /\ sin = [t |-> "none"]
    /\ buffer = <<>>
    /\ data_counter = 0
    /\ packets = <<>>
    /\ reply = <<>>
    /\ response = NoResult
    /\ timeouts = 0
    /\ cin = [t |-> "none"]
    /\ cstage = "unused"
    /\ cenc = NoResult
    /\ cdec = NoResult
    /\ dual_controller = FALSE
    /\ on_the_fly_patterns = NoPatterns
    /\ pc = "idle"
    /\ call = [op |-> "none"]
    /\ ii = 0
    /\ todo = <<>>
    /\ cmds = <<>>
    /\ after = "none"
    /\ result = "none"
    /\ faults = 0

ConnFrame ==
    /\ UNCHANGED <<lock, sock, wire>>
    /\ UNCHANGED <<sstage, sin, buffer, data_counter, packets, reply, response, timeouts>>
    /\ UNCHANGED <<cvars, dvars>>

\* ConnectionPanel._connect_dlp: the button is disabled and the task's thread started
PanelConnect ==
    /\ gui.connect_btn = "normal"
    /\ ops < MaxConnects
    /\ ops' = ops + 1
    /\ gui' = [gui EXCEPT !.connect_btn = "disabled"]
    /\ tpc' = [tpc EXCEPT !.worker = "open_base"]
    /\ tlocal' = [tlocal EXCEPT !.worker = IdleProbe]
    /\ UNCHANGED dmd
    /\ ConnFrame

\* connect_dlp: base_dmd = dlpc900_dmd(initialize=True); a failed open raises out of connect_dlp
OpenBase ==
    /\ tpc.worker = "open_base"
    /\ \E o \in OpenOutcomes :
        IF o = "ok"
        THEN /\ dmd' = hid_open(dmd)
             /\ tlocal' = [tlocal EXCEPT !.worker.base_dmd = dmd.next]
             /\ tpc' = [tpc EXCEPT !.worker = "probe"]
        ELSE /\ tpc' = [tpc EXCEPT !.worker = "raised"]
             /\ UNCHANGED <<dmd, tlocal>>
    /\ UNCHANGED <<gui, ops>>
    /\ ConnFrame

\* connect_dlp: get_firmware_type and get_firmware_version inside try/except Exception
ProbeType ==
    /\ tpc.worker = "probe"
    /\ \E ty \in ProbeOutcomes : tlocal' = [tlocal EXCEPT !.worker.dmd_type = ty]
    /\ tpc' = [tpc EXCEPT !.worker = "close_base"]
    /\ UNCHANGED <<gui, ops, dmd>>
    /\ ConnFrame

\* connect_dlp: base_dmd._dmd.close(); base_dmd._dmd = None; then time.sleep(0.3)
CloseBase ==
    /\ tpc.worker = "close_base"
    /\ dmd' = IF tlocal.worker.base_dmd # 0 THEN hid_close(dmd, tlocal.worker.base_dmd) ELSE dmd
    /\ tlocal' = [tlocal EXCEPT !.worker.base_dmd = 0]
    /\ tpc' = [tpc EXCEPT !.worker = "open_model"]
    /\ UNCHANGED <<gui, ops>>
    /\ ConnFrame

\* connect_dlp: self.dlp = dlp9000(...) or dlp6500(...), by the path of the probe;
\* a failed open raises before self.dlp is assigned
OpenModel ==
    /\ tpc.worker = "open_model"
    /\ \E o \in OpenOutcomes :
        IF o = "ok"
        THEN /\ dmd' = hid_open(dmd)
             /\ gui' = [gui EXCEPT !.dlp = IF tlocal.worker.dmd_type = "DLP9000"
                                            THEN "dlp9000" ELSE "dlp6500",
                                   !.initialized = TRUE,
                                   !.handle = dmd.next]
             /\ tpc' = [tpc EXCEPT !.worker = "returned"]
        ELSE /\ tpc' = [tpc EXCEPT !.worker = "raised"]
             /\ UNCHANGED <<dmd, gui>>
    /\ UNCHANGED <<tlocal, ops>>
    /\ ConnFrame

\* ConnectionPanel._on_dlp_connected, scheduled by the task when connect_dlp returned
OnDlpConnected ==
    /\ tpc.worker = "returned"
    /\ gui' = [gui EXCEPT !.connect_btn = "disabled", !.disconnect_btn = "normal",
                          !.last = "connected"]
    /\ tpc' = [tpc EXCEPT !.worker = "none"]
    /\ UNCHANGED <<tlocal, ops, dmd>>
    /\ ConnFrame

\* ConnectionPanel._on_dlp_error, scheduled by the task when connect_dlp raised
OnDlpError ==
    /\ tpc.worker = "raised"
    /\ gui' = [gui EXCEPT !.connect_btn = "normal", !.last = "error"]
    /\ tpc' = [tpc EXCEPT !.worker = "none"]
    /\ UNCHANGED <<tlocal, ops, dmd>>
    /\ ConnFrame

\* ConnectionPanel._disconnect_dlp with DLPApp.disconnect_dlp: the stop command
\* (its failure is swallowed), the close of the handle, and the object dropped
PanelDisconnect ==
    /\ gui.disconnect_btn = "normal"
    /\ dmd' = IF gui.dlp # "None" /\ gui.handle # 0 THEN hid_close(dmd, gui.handle) ELSE dmd
    /\ gui' = [gui EXCEPT !.dlp = "None", !.initialized = FALSE, !.handle = 0,
                          !.connect_btn = "normal", !.disconnect_btn = "disabled",
                          !.last = "disconnected"]
    /\ UNCHANGED <<tpc, tlocal, ops>>
    /\ ConnFrame

NextConn ==
    \/ PanelConnect
    \/ OpenBase
    \/ ProbeType
    \/ CloseBase
    \/ OpenModel
    \/ OnDlpConnected
    \/ OnDlpError
    \/ PanelDisconnect

SpecConn == InitConn /\ [][NextConn]_vars

\* C36: over every sequence of connects and disconnects of the application,
\* with the firmware-type query failing or the second open failing included,
\* at most one HID handle is open at any time; the probing handle is closed
\* before the model-specific handle is opened (no handle is open when that open
\* is about to be made, and the one open after it is the application's); and
\* after disconnect_dlp no handle is open and dlp_connected is false.
C36_OneHandle ==
    /\ Cardinality(dmd.open) <= 1
    /\ tpc.worker = "open_model" => dmd.open = {}
    /\ tpc.worker = "returned" => dmd.open = {gui.handle}
    /\ gui.last = "disconnected" /\ tpc.worker = "none" => dmd.open = {} /\ ~dlp_connected

\* a disconnect made after a connect whose second open failed and a connect
\* that succeeded: two connects, three handles opened, none open now
C36_Witness ==
    /\ gui.last = "disconnected"
    /\ tpc.worker = "none"
    /\ ops = 2
    /\ dmd.next = 4
    /\ dmd.open = {}
    /\ ~dlp_connected

\* a connect made after a disconnect, whose probe failed, about to open the
\* model-specific handle
ProbeFailedReached ==
    /\ gui.last = "disconnected"
    /\ tpc.worker = "open_model"
    /\ tlocal.worker.dmd_type = "unknown"
    /\ dmd.open = {}

====
